---- MODULE Spec2Model ----
(***************************************************************************)
(* Model of the AWS Lambda memory benchmarker (src/benchmarker).           *)
(*                                                                         *)
(* One Benchmark.run() is modelled as a state machine: the original        *)
(* configuration is stored, every memory value of memory_sets is           *)
(* benchmarked in order (set_new_config, then get_benchmark_durations with *)
(* its rounds of concurrent get_execution_time workers), the results are   *)
(* processed into the two rankings and the logs, and the original          *)
(* configuration is restored.  The external Lambda API (get/update         *)
(* configuration, invoke) is an environment that answers every call with   *)
(* any of the responses the code distinguishes.                            *)
(*                                                                         *)
(* Python values: None is the empty tuple and a present value x is <<x>>;  *)
(* money is an integer number of micro-dollars (the 6 decimals the code    *)
(* rounds to), prices are integer nano-dollars per 100 ms.                 *)
(***************************************************************************)
EXTENDS Integers, Sequences, FiniteSets, TLC

VARIABLES
    \* Benchmark.__init__ public attributes (benchmark.py:38-45)
    ignore_coldstart, test_count, max_threads, memory_sets, timeout,
    \* Benchmark.__init__ internal attributes (benchmark.py:48-54)
    results, benchmark_results, public_errors, original_config,
    \* the target function's configuration held by the Lambda service
    lambda_config,
    \* position of run(): "start", "sweep", "collect", "round", "restore",
    \* "done" (run returned) or "raised" (run raised); of a caller of
    \* process_benchmark_results: "process", "processed", "processed_again";
    \* of a caller of lambda_execution_cost: "cost", "cost_returned";
    \* of a caller of get_execution_time: "sample", "sampled"; of
    \* lambda_function.handler: "handler", "rejected" (it returned status
    \* 400), the positions of run(), "crashed" (run raised an exception
    \* that is no CustomBenchmarkException), "responded"; of the fibonacci
    \* handler: "fibonacci", "fibonacci_returned"; of get_benchmark_durations
    \* with its threads: "pool_collect", "pool_round", "pool_returned"; of
    \* the callers of the stub: "mock"; of a sample of the default target:
    \* "target", "target_sampled"
    pc,
    \* 1-based position of the for loop of run() in memory_sets
    idx,
    \* locals of get_benchmark_durations (benchmark.py:289-290)
    durations, runs,
    \* futures submitted to the executor whose invocation has not returned
    inflight,
    \* history: what get_lambda_config answered, the update_lambda_config
    \* calls made so far (their arguments and whether the service applied
    \* them), the success restore_original_config reported
    get_response, set_calls, restore_result,
    \* history: positions of memory_sets for which an invocation was issued
    invoked,
    \* history of the latest get_benchmark_durations call: rounds started,
    \* durations of its successful warm samples, whether it has returned,
    \* whether, cold starts not being ignored, one of its successful samples
    \* was a cold start
    rounds, warm_issued, returned, cold_issued,
    \* a call of utils.lambda_execution_cost: its arguments and what it
    \* returned or raised (None before the call)
    cost_memory, cost_duration, cost_outcome,
    \* a call of Benchmark.get_execution_time: what invoke_lambda answered
    \* and the result the call returned (None before the call)
    invoke_outcome, execution,
    \* a call of lambda_function.handler: its event and the response it
    \* returned (None before it returns)
    event, handler_response,
    \* the fibonacci Lambda (fibonacci/lambda.py): its global first_run, the
    \* n of the event of a call and what the handler returned or raised
    first_run, fib_n, fib_response,
    \* the futures of a round of get_benchmark_durations whose workers and
    \* coordinating thread are followed step by step (benchmark.py:300-310):
    \* per worker, whether it runs, has returned its result, or its result
    \* has been taken by the as_completed loop
    futures,
    \* which call of run() on the Benchmark object this is (1 for the first)
    run_number,
    \* test.py's stub invoke_lambda_get_durations: how many values next() has
    \* taken from LAMBDA_REMAINING_TIME and from LAMBDA_STATE, and the calls
    \* made so far, each with its position and the queue positions it got
    time_cursor, state_cursor, mock_calls

vars == << ignore_coldstart, test_count, max_threads, memory_sets, timeout,
           results, benchmark_results, public_errors, original_config,
           lambda_config, pc, idx, durations, runs, inflight,
           get_response, set_calls, restore_result, invoked,
           rounds, warm_issued, returned, cold_issued,
           cost_memory, cost_duration, cost_outcome,
           invoke_outcome, execution, event, handler_response,
           first_run, fib_n, fib_response,
           futures, run_number, time_cursor, state_cursor, mock_calls >>

cost_vars == << cost_memory, cost_duration, cost_outcome >>

sample_vars == << invoke_outcome, execution >>

handler_vars == << event, handler_response >>

fibonacci_vars == << first_run, fib_n, fib_response >>

pool_vars == << futures >>

session_vars == << run_number >>

mock_vars == << time_cursor, state_cursor, mock_calls >>

config_vars == << ignore_coldstart, test_count, max_threads, memory_sets,
                  timeout >>

None == << >>
Some(x) == << x >>

----------------------------------------------------------------------------
(* Bounds of the model.                                                    *)

MaxTestCount == 2

\* max_threads values a request may name
ThreadCounts == {1, 2}

\* configurations the target function may have before the run
OriginalConfigs == { [memory |-> 256, timeout |-> 60] }

Timeouts == {300}

\* remaining_time values a sample may report (durations 200 and 50)
RemainingTimes == {100, 250}

----------------------------------------------------------------------------
(* The external Lambda API: what a call may answer.                        *)

\* an external call either raises or returns a response
Raise == [raises |-> TRUE]
Return(r) == [raises |-> FALSE, response |-> r]

\* a response is a dict (its items in body) or anything else
NotDict == [dict |-> FALSE]
Dict(b) == [dict |-> TRUE, body |-> b]
EmptyBody == [k \in {} |-> None]

\* an int field is Some(n); a field holding anything else is None
IsInt(v) == v # None

\* get_function_configuration of a function configured as fc
GetLambdaConfigOutcomes(fc) ==
    { Raise,
      Return(NotDict),
      Return(Dict([Timeout |-> Some(fc.timeout)])),
      Return(Dict([Memory |-> None, Timeout |-> Some(fc.timeout)])),
      Return(Dict([Memory |-> Some(fc.memory), Timeout |-> None])),
      Return(Dict([Memory |-> Some(fc.memory), Timeout |-> Some(fc.timeout)])) }

\* update_function_configuration
UpdateLambdaConfigOutcomes ==
    { Raise,
      Return(NotDict),
      Return(Dict(EmptyBody)),
      Return(Dict([StatusCode |-> 500])),
      Return(Dict([StatusCode |-> 200])) }

\* the service applies a configuration change it acknowledges
ConfigApplied(out) ==
    /\ ~out.raises
    /\ out.response.dict
    /\ "StatusCode" \in DOMAIN out.response.body
    /\ out.response.body.StatusCode = 200

\* an external call that raises an exception of type t
RaiseOf(t) == [raises |-> TRUE, exception |-> t]

\* the exceptions invoke_lambda raises: one of botocore, one of Python
InvokeExceptions == {"ClientError", "KeyError"}

\* invoke: the decoded Payload is no dict, or a dict with or without an int
\* remaining_time and with or without cold_start
InvokeLambdaOutcomes ==
    { RaiseOf(t) : t \in InvokeExceptions }
    \cup
    { Return([Payload |-> NotDict]),
      Return([Payload |-> Dict(EmptyBody)]),
      Return([Payload |-> Dict([remaining_time |-> None])]) }
    \cup { Return([Payload |-> Dict([remaining_time |-> Some(r)])]) :
             r \in RemainingTimes }
    \cup { Return([Payload |-> Dict([remaining_time |-> Some(r),
                                     cold_start |-> cs])]) :
             r \in RemainingTimes, cs \in BOOLEAN }

----------------------------------------------------------------------------
(* Python helpers.                                                         *)

\* an exception object and the str made of one
Exc(type, msg, arg) == [type |-> type, msg |-> msg, arg |-> arg]
Str(e) == [type |-> "str", msg |-> e.msg, arg |-> e.arg]
StrNone == [type |-> "str", msg |-> "None", arg |-> 0]

RECURSIVE Sum(_)
Sum(s) == IF s = << >> THEN 0 ELSE Head(s) + Sum(Tail(s))

\* round(n / d) for d > 0: Python 3 rounds a half to the even neighbour
Round(n, d) ==
    LET q == n \div d
        r == n % d
    IN  IF 2 * r < d THEN q
        ELSE IF 2 * r > d THEN q + 1
        ELSE IF q % 2 = 0 THEN q ELSE q + 1

\* math.ceil(n / d) for d > 0
Ceil(n, d) == -((-n) \div d)

Min(a, b) == IF a <= b THEN a ELSE b

\* a ranking left in the order of the list
SortedOrderOfInput(keys) == [ r \in 1..Len(keys) |-> r ]

\* a sort that puts the later of two equal keys first
SortedOrderUnstable(keys) ==
    LET Before(i, j) == \/ keys[i] < keys[j]
                        \/ keys[i] = keys[j] /\ i > j
        Rank(i) == Cardinality({ j \in 1..Len(keys) : Before(j, i) }) + 1
    IN  [ r \in 1..Len(keys) |-> CHOOSE i \in 1..Len(keys) : Rank(i) = r ]

\* sorted(s, key=...): the positions of s in the order sorted gives them,
\* keys being the key of each position; ascending and stable
SortedOrder(keys) ==
    LET Before(i, j) == \/ keys[i] < keys[j]
                        \/ keys[i] = keys[j] /\ i < j
        Rank(i) == Cardinality({ j \in 1..Len(keys) : Before(j, i) }) + 1
    IN  [ r \in 1..Len(keys) |-> CHOOSE i \in 1..Len(keys) : Rank(i) = r ]

----------------------------------------------------------------------------
(* utils.py and constants.py                                               *)

\* the rounds get_benchmark_durations adds to test_count / max_threads
ExtraRuns == 5

\* the billing unit, in milliseconds
BillingUnit == 100

\* constants.LAMBDA_COST_BY_MEMORY, in nano-dollars per 100 ms: the prices
\* that the expected costs of test.py:216-242 and test.py:551-556 fix
LAMBDA_COST_BY_MEMORY ==
    (128 :> 208) @@ (512 :> 834) @@ (1536 :> 2501) @@ (1600 :> 2605)
        @@ (3008 :> 4897)

\* a cost that bills the whole billing units only
lambda_execution_cost_floor(memory, duration) ==
    IF memory \in DOMAIN LAMBDA_COST_BY_MEMORY
    THEN [raises |-> FALSE,
          value |-> Round((duration \div BillingUnit)
                              * LAMBDA_COST_BY_MEMORY[memory], 1000)]
    ELSE [raises |-> TRUE,
          error |-> Exc("CalculateLambdaExecutionCostError",
                        "Cost/100ms not found for memory size", memory)]

\* a cost that takes the price of 128 MB for a memory without a price
lambda_execution_cost_defaults(memory, duration) ==
    [raises |-> FALSE,
     value |-> Round(Ceil(duration, BillingUnit)
                         * (IF memory \in DOMAIN LAMBDA_COST_BY_MEMORY
                            THEN LAMBDA_COST_BY_MEMORY[memory]
                            ELSE LAMBDA_COST_BY_MEMORY[128]), 1000)]

\* lambda_execution_cost: [raises |-> TRUE, error |-> e] for a memory without
\* a price, else the cost in micro-dollars (round(..., 6) of a dollar amount)
lambda_execution_cost(memory, duration) ==
    LET cost_per_100ms == IF memory \in DOMAIN LAMBDA_COST_BY_MEMORY
                          THEN LAMBDA_COST_BY_MEMORY[memory] ELSE 0
    IN  IF cost_per_100ms = 0
        THEN [raises |-> TRUE,
              error |-> Exc("CalculateLambdaExecutionCostError",
                            "Cost/100ms not found for memory size", memory)]
        ELSE [raises |-> FALSE,
              value |-> Round(Ceil(duration, BillingUnit) * cost_per_100ms,
                              1000)]

----------------------------------------------------------------------------
(* benchmark.py: the methods of Benchmark as operators                     *)

\* is_lambda_response_success; raises |-> TRUE is the KeyError of a dict
\* without StatusCode
is_lambda_response_success(operation, response) ==
    IF ~response.dict THEN [raises |-> FALSE, value |-> FALSE]
    ELSE IF operation = "get_lambda_config"
    THEN [raises |-> FALSE,
          value |-> /\ "Memory" \in DOMAIN response.body
                    /\ "Timeout" \in DOMAIN response.body]
    ELSE IF "StatusCode" \notin DOMAIN response.body THEN [raises |-> TRUE]
    ELSE [raises |-> FALSE,
          value |-> response.body.StatusCode \in {200, 202, 204}]


\* set_original as "x is not None" would have it: a value that is not an int
\* is skipped instead of raising
set_original_skips(oc, memory, tmo) ==
    [raises |-> FALSE,
     original_config |->
         [memory |-> IF IsInt(memory) THEN memory ELSE oc.memory,
          timeout |-> IF IsInt(tmo) THEN tmo ELSE oc.timeout]]

\* set_original: "type(x) is not None" is always true, so every value that
\* is not an int raises; memory is assigned before timeout is looked at
set_original(oc, memory, tmo) ==
    IF ~IsInt(memory) THEN [raises |-> TRUE, original_config |-> oc]
    ELSE IF ~IsInt(tmo)
    THEN [raises |-> TRUE, original_config |-> [oc EXCEPT !.memory = memory]]
    ELSE [raises |-> FALSE,
          original_config |-> [memory |-> memory, timeout |-> tmo]]

\* store_original_config on the outcome of get_lambda_config: the result
\* dict's error (None or the StoreOriginalConfigError) and original_config
store_original_config(oc, out) ==
    LET could_not == Exc("StoreOriginalConfigError",
                         "Could not get original configuration for Lambda", 0)
        invalid == Exc("StoreOriginalConfigError",
                       "Invalid configuration parameters returned for Lambda",
                       0)
    IN  IF out.raises
        THEN [error |-> Some(could_not), original_config |-> oc]
        ELSE IF ~is_lambda_response_success("get_lambda_config",
                                            out.response).value
        THEN [error |-> Some(invalid), original_config |-> oc]
        ELSE LET so == set_original(oc, out.response.body.Memory,
                                    out.response.body.Timeout)
             IN  IF so.raises
                 THEN [error |-> Some(could_not),
                       original_config |-> so.original_config]
                 ELSE [error |-> None,
                       original_config |-> so.original_config]


\* set_new_config that takes a call that raised for a success
set_new_config_swallows(new_memory, out) ==
    IF out.raises THEN [success |-> TRUE, error |-> None]
    ELSE IF ~out.response.dict \/ "StatusCode" \notin DOMAIN out.response.body
    THEN [success |-> FALSE, error |-> None]
    ELSE [success |-> out.response.body.StatusCode \in {200, 202, 204},
          error |-> None]

\* set_new_config on the outcome of update_lambda_config: (success, error);
\* error stays None when the response is simply not a success
set_new_config(new_memory, out) ==
    LET error == Exc("SetLambdaMemoryError",
                     "Cannot allocate new memory size", new_memory)
    IN  IF out.raises THEN [success |-> FALSE, error |-> Some(error)]
        ELSE LET ok == is_lambda_response_success("set_memory", out.response)
             IN  IF ok.raises THEN [success |-> FALSE, error |-> Some(error)]
                 ELSE [success |-> ok.value, error |-> None]


\* restore_original_config that passes the benchmark's timeout
restore_args_own_timeout(oc) == [memory |-> oc.memory[1], timeout |-> timeout]

\* the arguments restore_original_config gives set_new_config
restore_args(oc) == [memory |-> oc.memory[1], timeout |-> oc.timeout[1]]

\* get_execution_time that takes any dict Payload for a sample
get_execution_time_any_dict(tmo, out) ==
    IF out.raises \/ ~out.response.Payload.dict
    THEN [success |-> FALSE, error |-> Some(StrNone), duration |-> None,
          cold_start |-> FALSE]
    ELSE [success |-> TRUE, error |-> None,
          duration |->
              IF /\ "remaining_time" \in DOMAIN out.response.Payload.body
                 /\ IsInt(out.response.Payload.body.remaining_time)
              THEN Some(tmo - out.response.Payload.body.remaining_time[1])
              ELSE None,
          cold_start |-> FALSE]

\* get_execution_time on the outcome of invoke_lambda
get_execution_time(tmo, out) ==
    LET failed(e) == [success |-> FALSE, error |-> Some(Str(e)),
                      duration |-> None, cold_start |-> FALSE]
    IN  IF out.raises
        THEN failed(Exc("InvokeLambdaError",
                        "Could not invoke Lambda - Exception:",
                        out.exception))
        ELSE IF ~out.response.Payload.dict
        THEN failed(Exc("LambdaPayloadError",
                    "Error in Lambda response Payload (type is not a Dict)", 0))
        ELSE LET payload == out.response.Payload.body
             IN  IF \/ "remaining_time" \notin DOMAIN payload
                    \/ ~IsInt(payload.remaining_time)
                 THEN failed(Exc("LambdaPayloadError",
                        "No Integer remaining_time in Lambda Payload", 0))
                 ELSE [success |-> TRUE, error |-> None,
                       duration |-> Some(tmo - payload.remaining_time[1]),
                       cold_start |-> IF "cold_start" \in DOMAIN payload
                                      THEN payload.cold_start ELSE FALSE]


\* a collector that keeps the duration of every successful sample
keeps_duration_cold(invocation) == invocation.success

\* the condition under which get_benchmark_durations keeps a sample
keeps_duration(invocation) ==
    invocation.success /\ ~invocation.cold_start


\* a round that always starts max_threads workers
round_threads_all(mt, tc, collected) == mt

\* a round that starts a worker for every pending duration
round_threads_pending(mt, tc, collected) == tc - collected

\* threads = min(self.max_threads, pending)
round_threads(mt, tc, collected) == Min(mt, tc - collected)

\* a loop without the break on max_runs
runs_exhausted_never(run_count, tc, mt) == FALSE

\* runs >= max_runs, with max_runs = test_count / max_threads + 5 (a float)
runs_exhausted(run_count, tc, mt) == run_count * mt >= tc + ExtraRuns * mt

\* benchmark_memory after set_new_config failed
config_failure(memory, sn) ==
    [memory |-> memory, success |-> FALSE, durations |-> << >>,
     average_duration |-> None,
     errors |-> << IF sn.error = None THEN StrNone ELSE Str(sn.error[1]) >>]

\* benchmark_memory that returns the result of an empty durations list
\* without an error
memory_result_silent(memory, durs) ==
    IF Len(durs) = 0
    THEN [memory |-> memory, success |-> FALSE, durations |-> durs,
          average_duration |-> None, errors |-> << >>]
    ELSE [memory |-> memory, success |-> TRUE, durations |-> durs,
          average_duration |-> Some(Round(Sum(durs), Len(durs))),
          errors |-> << >>]

\* benchmark_memory after get_benchmark_durations returned durs
memory_result(memory, durs) ==
    IF Len(durs) = 0
    THEN [memory |-> memory, success |-> FALSE, durations |-> durs,
          average_duration |-> None,
          errors |-> << Exc("InvokeLambdaError",
                            "No durations were returned from invocations",
                            memory) >>]
    ELSE [memory |-> memory, success |-> TRUE, durations |-> durs,
          average_duration |-> Some(Round(Sum(durs), Len(durs))),
          errors |-> << >>]

\* append_public_error of one error: type name and str
public_error(error) == [name |-> error.type, text |-> error.msg,
                        arg |-> error.arg]


\* process_benchmark_results without the "continue" of a failed benchmark: it
\* is ranked all the same
processed_entry_no_continue(benchmark) ==
    [ranked |-> TRUE, memory |-> benchmark.memory, cost |-> 0, duration |-> 0,
     log |-> [memory |-> benchmark.memory, success |-> FALSE,
              errors |-> << >>],
     errors |-> << >>]

\* process_benchmark_results that ranks a sampled value without a price, at
\* cost 0
processed_entry_ranks_unpriced(benchmark) ==
    IF ~benchmark.success
    THEN [ranked |-> FALSE, memory |-> benchmark.memory,
          cost |-> 0, duration |-> 0,
          log |-> [memory |-> benchmark.memory, success |-> FALSE,
                   errors |-> [i \in 1..Len(benchmark.errors) |->
                                  Str(benchmark.errors[i])]],
          errors |-> [i \in 1..Len(benchmark.errors) |->
                         public_error(benchmark.errors[i])]]
    ELSE LET execution_cost ==
                 lambda_execution_cost(benchmark.memory,
                                       benchmark.average_duration[1])
             cost == IF execution_cost.raises THEN 0
                     ELSE execution_cost.value
         IN  [ranked |-> TRUE, memory |-> benchmark.memory,
              cost |-> cost,
              duration |-> benchmark.average_duration[1],
              log |-> [memory |-> benchmark.memory, succcess |-> FALSE,
                       duration |->
                           [average |-> benchmark.average_duration[1],
                            all_invocations |-> benchmark.durations],
                       execution_cost |-> cost],
              errors |-> << >>]

\* process_benchmark_results that logs a failed benchmark without a call of
\* append_public_error
processed_entry_logs_only(benchmark) ==
    IF ~benchmark.success
    THEN [ranked |-> FALSE, memory |-> benchmark.memory,
          cost |-> 0, duration |-> 0,
          log |-> [memory |-> benchmark.memory, success |-> FALSE,
                   errors |-> [i \in 1..Len(benchmark.errors) |->
                                  Str(benchmark.errors[i])]],
          errors |-> << >>]
    ELSE LET execution_cost ==
                 lambda_execution_cost(benchmark.memory,
                                       benchmark.average_duration[1])
         IN  IF execution_cost.raises
             THEN [ranked |-> FALSE, memory |-> benchmark.memory,
                   cost |-> 0, duration |-> 0,
                   log |-> [memory |-> benchmark.memory, success |-> FALSE,
                            errors |-> << Str(execution_cost.error) >>],
                   errors |-> << public_error(execution_cost.error) >>]
             ELSE [ranked |-> TRUE, memory |-> benchmark.memory,
                   cost |-> execution_cost.value,
                   duration |-> benchmark.average_duration[1],
                   log |-> [memory |-> benchmark.memory, succcess |-> FALSE,
                            duration |->
                                [average |-> benchmark.average_duration[1],
                                 all_invocations |-> benchmark.durations],
                            execution_cost |-> execution_cost.value],
                   errors |-> << >>]

\* calculate that numbers the sequence 1, 1, 2, 3, ...
RECURSIVE calculate_from_one(_)
calculate_from_one(n) ==
    IF n = 0 THEN RaiseOf("TypeError")
    ELSE IF n = 1 THEN Return(1)
    ELSE IF n = 2 THEN Return(1)
    ELSE IF n < 0 THEN RaiseOf("RecursionError")
    ELSE Return(calculate_from_one(n - 1).response
                + calculate_from_one(n - 2).response)

\* fibonacci.calculate, fibonacci.py:4-15, on an int n.  A negative n
\* passes the three tests and recurses on n - 1 and below without end, which
\* Python ends with RecursionError.
RECURSIVE calculate(_)
calculate(n) ==
    IF n = 0 THEN RaiseOf("TypeError")
    ELSE IF n = 1 THEN Return(0)
    ELSE IF n = 2 THEN Return(1)
    ELSE IF n < 0 THEN RaiseOf("RecursionError")
    ELSE Return(calculate(n - 1).response + calculate(n - 2).response)

\* constants.py:4-31
VALID_EVENT_ARGS ==
    {"verbose", "ignore_coldstart", "test_count", "max_threads",
     "lambda_function", "lambda_event", "memory_sets"}
IGNORE_COLDSTART == TRUE
DEFAULT_TEST_COUNT == 6
DEFAULT_MAX_THREADS == 2
DEFAULT_MEMORY_SETS == << 128, 256, 512, 768, 1024, 1536, 2048, 2560, 3008 >>
DEFAULT_LAMBDA_TIMEOUT == 300000

\* custom_exceptions.py: the subclasses of CustomBenchmarkException
CustomBenchmarkExceptions ==
    {"CustomBenchmarkException", "SetOriginalConfigError",
     "GetOriginalConfigError", "StoreOriginalConfigError",
     "RestoreOriginalConfigError", "SetLambdaMemoryError",
     "InvokeLambdaError", "LambdaPayloadError",
     "CalculateLambdaExecutionCostError"}

\* an error string that is not made of an exception
message(text) == [name |-> "", text |-> text, arg |-> 0]

\* validate_event that accepts an event when one of its keys is valid
validate_event_any_key(ev) ==
    IF ~ev.dict
    THEN [valid |-> FALSE,
          error |-> Some(message("Event payload input must be a dict"))]
    ELSE IF DOMAIN ev.body # {}
            /\ \A key \in DOMAIN ev.body : key \notin VALID_EVENT_ARGS
    THEN [valid |-> FALSE, error |-> Some(message("Invalid event key"))]
    ELSE [valid |-> TRUE, error |-> None]

\* utils.validate_event, utils.py:17-29
validate_event(ev) ==
    IF ~ev.dict
    THEN [valid |-> FALSE,
          error |-> Some(message("Event payload input must be a dict"))]
    ELSE IF ~(\A key \in DOMAIN ev.body : key \in VALID_EVENT_ARGS)
    THEN [valid |-> FALSE, error |-> Some(message("Invalid event key"))]
    ELSE [valid |-> TRUE, error |-> None]

\* the value Benchmark.__init__ gives a parameter: the keyword argument of
\* the event, else the default (benchmark.py:24-45)
Arg(ev, key, default) ==
    IF key \in DOMAIN ev.body THEN ev.body[key] ELSE default

\* an except clause that reports every exception with its type and message
handler_except_details(error) ==
    [status |-> 500, results |-> << >>, errors |-> << public_error(error) >>]

\* the except clause of handler, lambda_function.py:51-71
handler_except(error) ==
    IF error.type \in CustomBenchmarkExceptions
    THEN [status |-> 500, results |-> << >>,
          errors |-> << public_error(error) >>]
    ELSE [status |-> 500, results |-> << >>,
          errors |-> << message("Sorry there was an internal error") >>]

\* what process_benchmark_results makes of one benchmark: whether it is
\* ranked, its two ranking keys, its logs entry and the public errors it
\* appends
processed_entry(benchmark) ==
    IF ~benchmark.success
    THEN [ranked |-> FALSE, memory |-> benchmark.memory,
          cost |-> 0, duration |-> 0,
          log |-> [memory |-> benchmark.memory, success |-> FALSE,
                   errors |-> [i \in 1..Len(benchmark.errors) |->
                                  Str(benchmark.errors[i])]],
          errors |-> [i \in 1..Len(benchmark.errors) |->
                         public_error(benchmark.errors[i])]]
    ELSE LET execution_cost ==
                 lambda_execution_cost(benchmark.memory,
                                       benchmark.average_duration[1])
         IN  IF execution_cost.raises
             THEN [ranked |-> FALSE, memory |-> benchmark.memory,
                   cost |-> 0, duration |-> 0,
                   log |-> [memory |-> benchmark.memory, success |-> FALSE,
                            errors |-> << Str(execution_cost.error) >>],
                   errors |-> << public_error(execution_cost.error) >>]
             ELSE [ranked |-> TRUE, memory |-> benchmark.memory,
                   cost |-> execution_cost.value,
                   duration |-> benchmark.average_duration[1],
                   log |-> [memory |-> benchmark.memory, succcess |-> FALSE,
                            duration |->
                                [average |-> benchmark.average_duration[1],
                                 all_invocations |-> benchmark.durations],
                            execution_cost |-> execution_cost.value],
                   errors |-> << >>]

RECURSIVE Flatten(_)
Flatten(ss) == IF ss = << >> THEN << >> ELSE Head(ss) \o Flatten(Tail(ss))

\* process_benchmark_results that leaves a failed benchmark out of the logs
process_benchmark_results_skips_failed(res) ==
    LET IsRanked(e) == e.ranked
        entry == [i \in 1..Len(res) |-> processed_entry(res[i])]
        ranked == SelectSeq(entry, IsRanked)
        by_cost == SortedOrder([i \in 1..Len(ranked) |-> ranked[i].cost])
        by_duration ==
            SortedOrder([i \in 1..Len(ranked) |-> ranked[i].duration])
    IN  [processed |->
             [ranking |->
                  [cost |-> [r \in 1..Len(ranked) |->
                                [memory |-> ranked[by_cost[r]].memory,
                                 cost |-> ranked[by_cost[r]].cost]],
                   duration |->
                       [r \in 1..Len(ranked) |->
                           [memory |-> ranked[by_duration[r]].memory,
                            duration |-> ranked[by_duration[r]].duration]]],
              logs |-> [i \in 1..Len(ranked) |-> ranked[i].log]],
         errors |-> Flatten([i \in 1..Len(res) |-> entry[i].errors])]

\* process_benchmark_results: the processed dict (without its static notes)
\* and the public errors appended on the way; entry is the list of what the
\* loop made of each benchmark
process_benchmark_results(res) ==
    LET IsRanked(e) == e.ranked
        processed(entry, ranked) ==
            LET cost == [i \in 1..Len(ranked) |->
                            [memory |-> ranked[i].memory,
                             cost |-> ranked[i].cost]]
                duration == [i \in 1..Len(ranked) |->
                                [memory |-> ranked[i].memory,
                                 duration |-> ranked[i].duration]]
                by_cost ==
                    SortedOrder([i \in 1..Len(ranked) |-> ranked[i].cost])
                by_duration ==
                    SortedOrder([i \in 1..Len(ranked) |-> ranked[i].duration])
            IN  [processed |->
                     [ranking |->
                          [cost |-> [r \in 1..Len(ranked) |->
                                        cost[by_cost[r]]],
                           duration |-> [r \in 1..Len(ranked) |->
                                            duration[by_duration[r]]]],
                      logs |-> [i \in 1..Len(res) |-> entry[i].log]],
                 errors |->
                     Flatten([i \in 1..Len(res) |-> entry[i].errors])]
    IN  CHOOSE p \in
            { processed(entry, SelectSeq(entry, IsRanked)) :
                entry \in { [i \in 1..Len(res) |-> processed_entry(res[i])] } }
            : TRUE

----------------------------------------------------------------------------
(* Initial states: a Benchmark built from a request, before run().         *)

\* the memory_sets a request may name: one value, two values, and three
\* values with and without the unpriced one
MemorySetChoices ==
    { << 512 >>, << 128, 512 >>, << 1025, 128 >>, << 512, 1025, 128 >> }

Init ==
    /\ ignore_coldstart \in BOOLEAN
    /\ test_count \in 1..MaxTestCount
    /\ max_threads \in ThreadCounts
    /\ memory_sets \in MemorySetChoices
    /\ timeout \in Timeouts
    /\ lambda_config \in OriginalConfigs
    /\ results = << >>
    /\ benchmark_results = << >>
    /\ public_errors = << >>
    /\ original_config = [memory |-> None, timeout |-> None]
    /\ pc = "start"
    /\ idx = 0
    /\ durations = << >>
    /\ runs = 0
    /\ inflight = 0
    /\ get_response = None
    /\ set_calls = << >>
    /\ restore_result = None
    /\ invoked = {}
    /\ rounds = 0
    /\ warm_issued = << >>
    /\ returned = FALSE
    /\ cold_issued = FALSE
    /\ cost_memory = 0
    /\ cost_duration = 0
    /\ cost_outcome = None
    /\ invoke_outcome = None
    /\ execution = None
    /\ event = None
    /\ handler_response = None
    /\ first_run = TRUE
    /\ fib_n = 0
    /\ fib_response = None
    /\ futures = << >>
    /\ run_number = 1
    /\ time_cursor = 0
    /\ state_cursor = 0
    /\ mock_calls = << >>

----------------------------------------------------------------------------
(* Actions: the steps of Benchmark.run().                                  *)

collector_vars == << durations, runs, inflight, rounds,
                     warm_issued, returned, cold_issued >>

\* run(), benchmark.py:196-207: reset the results, store the original
\* configuration, raise if that failed
RunStoreOriginalConfig ==
    /\ pc = "start"
    /\ \E out \in GetLambdaConfigOutcomes(lambda_config) :
         LET stored == store_original_config(original_config, out)
         IN  /\ get_response' = Some(out)
             /\ original_config' = stored.original_config
             /\ IF stored.error # None
                THEN pc' = "raised" /\ idx' = idx
                ELSE pc' = "sweep" /\ idx' = 1
    /\ results' = << >>
    /\ benchmark_results' = << >>
    /\ UNCHANGED << config_vars, cost_vars, sample_vars, handler_vars,
                    fibonacci_vars, pool_vars,
                    session_vars, mock_vars, public_errors, lambda_config, set_calls,
                    restore_result, invoked, collector_vars >>

\* benchmark_memory that changes the memory alone and leaves the function
\* its timeout
BenchmarkMemorySetConfigKeepsTimeout ==
    /\ pc = "sweep"
    /\ idx <= Len(memory_sets)
    /\ \E out \in UpdateLambdaConfigOutcomes :
         LET memory == memory_sets[idx]
             sn == set_new_config(memory, out)
         IN  /\ set_calls' = Append(set_calls,
                    [op |-> "benchmark_memory", memory |-> memory,
                     timeout |-> lambda_config.timeout,
                     applied |-> ConfigApplied(out)])
             /\ lambda_config' =
                    IF ConfigApplied(out)
                    THEN [memory |-> memory,
                          timeout |-> lambda_config.timeout]
                    ELSE lambda_config
             /\ IF ~sn.success
                THEN /\ benchmark_results' =
                            Append(benchmark_results,
                                   config_failure(memory, sn))
                     /\ idx' = idx + 1
                     /\ pc' = "sweep"
                ELSE /\ pc' = IF max_threads = 0 THEN "crashed"
                                                   ELSE "collect"
                     /\ UNCHANGED << benchmark_results, idx >>
    /\ durations' = << >>
    /\ runs' = 0
    /\ rounds' = 0
    /\ warm_issued' = << >>
    /\ returned' = FALSE
    /\ cold_issued' = FALSE
    /\ UNCHANGED inflight
    /\ UNCHANGED << config_vars, cost_vars, sample_vars, handler_vars,
                    fibonacci_vars, pool_vars,
                    session_vars, mock_vars, results, public_errors, original_config,
                    get_response, restore_result, invoked >>

\* benchmark_memory, benchmark.py:237-265, for the next memory value: set the
\* new configuration; on failure return the failed result to the loop of
\* run(), else enter get_benchmark_durations (benchmark.py:289-291), whose
\* test_count / max_threads raises ZeroDivisionError out of run() when
\* max_threads is 0.  The locals and the history of the previous
\* get_benchmark_durations call are gone.
BenchmarkMemorySetConfig ==
    /\ pc = "sweep"
    /\ idx <= Len(memory_sets)
    /\ \E out \in UpdateLambdaConfigOutcomes :
         LET memory == memory_sets[idx]
             sn == set_new_config(memory, out)
         IN  /\ set_calls' = Append(set_calls,
                    [op |-> "benchmark_memory", memory |-> memory,
                     timeout |-> timeout, applied |-> ConfigApplied(out)])
             /\ lambda_config' =
                    IF ConfigApplied(out)
                    THEN [memory |-> memory, timeout |-> timeout]
                    ELSE lambda_config
             /\ IF ~sn.success
                THEN /\ benchmark_results' =
                            Append(benchmark_results,
                                   config_failure(memory, sn))
                     /\ idx' = idx + 1
                     /\ pc' = "sweep"
                ELSE /\ pc' = IF max_threads = 0 THEN "crashed"
                                                   ELSE "collect"
                     /\ UNCHANGED << benchmark_results, idx >>
    /\ durations' = << >>
    /\ runs' = 0
    /\ rounds' = 0
    /\ warm_issued' = << >>
    /\ returned' = FALSE
    /\ cold_issued' = FALSE
    /\ UNCHANGED inflight
    /\ UNCHANGED << config_vars, cost_vars, sample_vars, handler_vars,
                    fibonacci_vars, pool_vars,
                    session_vars, mock_vars, results, public_errors, original_config,
                    get_response, restore_result, invoked >>

\* get_benchmark_durations returns durations to benchmark_memory, which
\* builds its result (benchmark.py:265-285) and returns it to the loop of
\* run() (benchmark.py:212-213)
ReturnDurations ==
    /\ benchmark_results' =
           Append(benchmark_results,
                  memory_result(memory_sets[idx], durations))
    /\ idx' = idx + 1
    /\ pc' = "sweep"
    /\ returned' = TRUE

\* the while test of get_benchmark_durations, benchmark.py:293-304: submit a
\* round of workers, or leave the loop
CollectLoop ==
    /\ pc = "collect"
    /\ IF Len(durations) < test_count
       THEN /\ inflight' = inflight + round_threads(max_threads, test_count,
                                                    Len(durations))
            /\ rounds' = rounds + 1
            /\ pc' = "round"
            /\ UNCHANGED << benchmark_results, idx, returned >>
       ELSE /\ ReturnDurations
            /\ UNCHANGED << inflight, rounds >>
    /\ UNCHANGED << config_vars, cost_vars, sample_vars, handler_vars,
                    fibonacci_vars, pool_vars,
                    session_vars, mock_vars, results, public_errors, original_config,
                    lambda_config, durations, runs, get_response,
                    set_calls, restore_result, invoked, warm_issued,
                    cold_issued >>

\* one worker thread runs get_execution_time (benchmark.py:359-415) and its
\* future completes; the as_completed loop takes it (benchmark.py:306-310)
FutureCompleted ==
    /\ inflight > 0
    /\ \E out \in InvokeLambdaOutcomes :
         LET invocation == get_execution_time(timeout, out)
         IN  /\ durations' = IF keeps_duration(invocation)
                             THEN Append(durations, invocation.duration[1])
                             ELSE durations
             /\ warm_issued' =
                  IF /\ ~out.raises
                     /\ out.response.Payload.dict
                     /\ "remaining_time" \in DOMAIN out.response.Payload.body
                     /\ IsInt(out.response.Payload.body.remaining_time)
                     /\ ~ ( /\ "cold_start" \in
                                   DOMAIN out.response.Payload.body
                            /\ out.response.Payload.body.cold_start )
                  THEN Append(warm_issued, timeout -
                           out.response.Payload.body.remaining_time[1])
                  ELSE warm_issued
             /\ cold_issued' =
                  ( \/ cold_issued
                    \/ /\ ~ignore_coldstart
                       /\ ~out.raises
                       /\ out.response.Payload.dict
                       /\ "remaining_time" \in DOMAIN out.response.Payload.body
                       /\ IsInt(out.response.Payload.body.remaining_time)
                       /\ "cold_start" \in DOMAIN out.response.Payload.body
                       /\ out.response.Payload.body.cold_start )
    /\ inflight' = inflight - 1
    /\ invoked' = invoked \cup {idx}
    /\ UNCHANGED << config_vars, cost_vars, sample_vars, handler_vars,
                    fibonacci_vars, pool_vars,
                    session_vars, mock_vars, results, benchmark_results, public_errors,
                    original_config, lambda_config, pc, idx, runs,
                    get_response, set_calls, restore_result, rounds,
                    returned >>


\* an executor that is left without waiting for its workers
round_not_joined == TRUE

\* every future of the round is done, so the as_completed loop has ended and
\* the executor's with block is left
round_joined == inflight = 0

\* the end of a round, benchmark.py:317-321: break when the runs are
\* exhausted, else count the run and test the while condition again
EndRound ==
    /\ pc = "round"
    /\ round_joined
    /\ IF runs_exhausted(runs, test_count, max_threads)
       THEN /\ ReturnDurations
            /\ UNCHANGED runs
       ELSE /\ runs' = runs + 1
            /\ pc' = "collect"
            /\ UNCHANGED << benchmark_results, idx, returned >>
    /\ UNCHANGED << config_vars, cost_vars, sample_vars, handler_vars,
                    fibonacci_vars, pool_vars,
                    session_vars, mock_vars, results, public_errors, original_config,
                    lambda_config, durations, inflight, get_response,
                    set_calls, restore_result, invoked, rounds, warm_issued,
                    cold_issued >>


\* run() with a cost error that is not caught: it raises out of run()
ProcessBenchmarkResultsUncaught ==
    /\ pc = "sweep"
    /\ idx > Len(memory_sets)
    /\ LET p == process_benchmark_results(benchmark_results)
       IN  IF \E i \in 1..Len(p.errors) :
                   p.errors[i].name = "CalculateLambdaExecutionCostError"
           THEN pc' = "raised" /\ UNCHANGED << results, public_errors >>
           ELSE /\ results' = p.processed
                /\ public_errors' = public_errors \o p.errors
                /\ pc' = "restore"
    /\ UNCHANGED << config_vars, cost_vars, sample_vars, handler_vars,
                    fibonacci_vars, pool_vars,
                    session_vars, mock_vars, benchmark_results, original_config,
                    lambda_config, idx, get_response, set_calls,
                    restore_result, invoked, collector_vars >>

\* run() that processes the results it has while the loop over memory_sets
\* is still going
ProcessBenchmarkResultsEarly ==
    /\ pc = "sweep"
    /\ LET p == process_benchmark_results(benchmark_results)
       IN  /\ results' = p.processed
           /\ public_errors' = public_errors \o p.errors
    /\ pc' = "restore"
    /\ UNCHANGED << config_vars, cost_vars, sample_vars, handler_vars,
                    fibonacci_vars, pool_vars,
                    session_vars, mock_vars, benchmark_results, original_config,
                    lambda_config, idx, get_response, set_calls,
                    restore_result, invoked, collector_vars >>

\* run(), benchmark.py:215-217, once the loop over memory_sets has ended
ProcessBenchmarkResults ==
    /\ pc = "sweep"
    /\ idx > Len(memory_sets)
    /\ LET p == process_benchmark_results(benchmark_results)
       IN  /\ results' = p.processed
           /\ public_errors' = public_errors \o p.errors
    /\ pc' = "restore"
    /\ UNCHANGED << config_vars, cost_vars, sample_vars, handler_vars,
                    fibonacci_vars, pool_vars,
                    session_vars, mock_vars, benchmark_results, original_config,
                    lambda_config, idx, get_response, set_calls,
                    restore_result, invoked, collector_vars >>


\* run() that raises the restore error instead of reporting it
after_restore_raises(success) ==
    /\ public_errors' = public_errors
    /\ results' = IF success THEN results ELSE << >>
    /\ pc' = IF success THEN "done" ELSE "raised"

\* what run() does with the result of the restore, benchmark.py:223-235
after_restore(success) ==
    /\ public_errors' =
           IF success THEN public_errors
           ELSE Append(public_errors,
                    public_error(Exc("RestoreOriginalConfigError",
                        "Cannot restore Lambda original configurations", 0)))
    /\ results' = results
    /\ pc' = "done"

\* run(), benchmark.py:219-235: restore the original configuration, report a
\* failure as a public error, return the results
RestoreOriginalConfig ==
    /\ pc = "restore"
    /\ \E out \in UpdateLambdaConfigOutcomes :
         LET args == restore_args(original_config)
             sn == set_new_config(args.memory, out)
         IN  /\ set_calls' = Append(set_calls,
                    [op |-> "restore_original_config",
                     memory |-> args.memory, timeout |-> args.timeout,
                     applied |-> ConfigApplied(out)])
             /\ lambda_config' = IF ConfigApplied(out) THEN args
                                 ELSE lambda_config
             /\ restore_result' = Some(sn.success)
             /\ after_restore(sn.success)
    /\ UNCHANGED << config_vars, cost_vars, sample_vars, handler_vars,
                    fibonacci_vars, pool_vars,
                    session_vars, mock_vars, benchmark_results, original_config, idx,
                    get_response, invoked, collector_vars >>

Next ==
    \/ RunStoreOriginalConfig
    \/ BenchmarkMemorySetConfig
    \/ CollectLoop
    \/ FutureCompleted
    \/ EndRound
    \/ ProcessBenchmarkResults
    \/ RestoreOriginalConfig

Spec == Init /\ [][Next]_vars

\* run() is one thread that keeps running, every worker the executor
\* started runs to its end, and every external call returns or raises
FairSpec == Spec /\ WF_vars(Next)

\* the runs over one or two memory values, with the same fairness
ShortSweeps == { << 512 >>, << 128, 512 >>, << 1025, 128 >> }
ShortSweepInit == Init /\ memory_sets \in ShortSweeps
ShortSweepSpec ==
    ShortSweepInit /\ [][Next]_vars /\ WF_vars(Next)

----------------------------------------------------------------------------
(* process_benchmark_results called on a list of results, as                *)
(* test_process_benchmark_results does.                                     *)

\* the longest list of results
MaxResults == 3

\* memory values of the results: three with a price, one without
ResultMemories == {128, 512, 1536, 1025}

\* the duration of the one sample of a result
SampleDurations == {100, 400}

\* the results benchmark_memory may return for memory value m
ResultsOf(m) ==
    { config_failure(m, set_new_config(m, Raise)), memory_result(m, << >>) }
    \cup { memory_result(m, << d >>) : d \in SampleDurations }

\* the lists of results of distinct memory values
BenchmarkLists ==
    UNION { { s \in [1..n -> UNION { ResultsOf(m) : m \in ResultMemories }] :
                \A i, j \in 1..n : s[i].memory = s[j].memory => i = j } :
            n \in 1..MaxResults }

ProcessInit ==
    /\ benchmark_results \in BenchmarkLists
    /\ memory_sets = [i \in 1..Len(benchmark_results) |->
                          benchmark_results[i].memory]
    /\ idx = Len(benchmark_results) + 1
    /\ pc = "process"
    /\ ignore_coldstart = TRUE
    /\ test_count = 1
    /\ max_threads = 1
    /\ timeout \in Timeouts
    /\ lambda_config \in OriginalConfigs
    /\ results = << >>
    /\ public_errors = << >>
    /\ original_config = [memory |-> None, timeout |-> None]
    /\ durations = << >>
    /\ runs = 0
    /\ inflight = 0
    /\ get_response = None
    /\ set_calls = << >>
    /\ restore_result = None
    /\ invoked = {}
    /\ rounds = 0
    /\ warm_issued = << >>
    /\ returned = FALSE
    /\ cold_issued = FALSE
    /\ cost_memory = 0
    /\ cost_duration = 0
    /\ cost_outcome = None
    /\ invoke_outcome = None
    /\ execution = None
    /\ event = None
    /\ handler_response = None
    /\ first_run = TRUE
    /\ fib_n = 0
    /\ fib_response = None
    /\ futures = << >>
    /\ run_number = 1
    /\ time_cursor = 0
    /\ state_cursor = 0
    /\ mock_calls = << >>

\* a process_benchmark_results whose processed dict outlives the call, so
\* that the logs of a second call follow those of the first
CallProcessBenchmarkResultsAccumulating ==
    /\ pc \in {"process", "processed"}
    /\ LET p == process_benchmark_results(benchmark_results)
       IN  /\ results' =
                 IF pc = "process" THEN p.processed
                 ELSE [p.processed EXCEPT
                          !.logs = results.logs \o p.processed.logs]
           /\ public_errors' = public_errors \o p.errors
    /\ pc' = IF pc = "process" THEN "processed" ELSE "processed_again"
    /\ UNCHANGED << config_vars, cost_vars, sample_vars, handler_vars,
                    fibonacci_vars, pool_vars,
                    session_vars, mock_vars, benchmark_results,
                    original_config, lambda_config, idx, get_response,
                    set_calls, restore_result, invoked, collector_vars >>

\* one call of process_benchmark_results(results=benchmark_results), the
\* first or the second on the same list; results holds what it returned
CallProcessBenchmarkResults ==
    /\ pc \in {"process", "processed"}
    /\ LET p == process_benchmark_results(benchmark_results)
       IN  /\ results' = p.processed
           /\ public_errors' = public_errors \o p.errors
    /\ pc' = IF pc = "process" THEN "processed" ELSE "processed_again"
    /\ UNCHANGED << config_vars, cost_vars, sample_vars, handler_vars,
                    fibonacci_vars, pool_vars,
                    session_vars, mock_vars, benchmark_results,
                    original_config, lambda_config, idx, get_response,
                    set_calls, restore_result, invoked, collector_vars >>

ProcessNext == CallProcessBenchmarkResults

ProcessSpec == ProcessInit /\ [][ProcessNext]_vars

----------------------------------------------------------------------------
(* utils.lambda_execution_cost called on its own, as                        *)
(* test_lambda_execution_cost does.                                         *)

\* the longest duration, in milliseconds
MaxDuration == 401

\* memory values of the calls: three with a price, two without
CostMemories == {128, 512, 3008, 1025, 64}

CostInit ==
    /\ cost_memory \in CostMemories
    /\ cost_duration \in 0..MaxDuration
    /\ cost_outcome = None
    /\ invoke_outcome = None
    /\ execution = None
    /\ event = None
    /\ handler_response = None
    /\ first_run = TRUE
    /\ fib_n = 0
    /\ fib_response = None
    /\ futures = << >>
    /\ run_number = 1
    /\ time_cursor = 0
    /\ state_cursor = 0
    /\ mock_calls = << >>
    /\ pc = "cost"
    /\ ignore_coldstart = TRUE
    /\ test_count = 1
    /\ max_threads = 1
    /\ memory_sets = << cost_memory >>
    /\ timeout \in Timeouts
    /\ lambda_config \in OriginalConfigs
    /\ results = << >>
    /\ benchmark_results = << >>
    /\ public_errors = << >>
    /\ original_config = [memory |-> None, timeout |-> None]
    /\ idx = 0
    /\ durations = << >>
    /\ runs = 0
    /\ inflight = 0
    /\ get_response = None
    /\ set_calls = << >>
    /\ restore_result = None
    /\ invoked = {}
    /\ rounds = 0
    /\ warm_issued = << >>
    /\ returned = FALSE
    /\ cold_issued = FALSE

\* lambda_execution_cost(memory=cost_memory, duration=cost_duration)
CallLambdaExecutionCost ==
    /\ pc = "cost"
    /\ cost_outcome' =
           Some(lambda_execution_cost(cost_memory, cost_duration))
    /\ pc' = "cost_returned"
    /\ UNCHANGED << config_vars, cost_memory, cost_duration, sample_vars,
                    handler_vars, fibonacci_vars, pool_vars,
                    session_vars, mock_vars, results,
                    benchmark_results, public_errors, original_config,
                    lambda_config, idx, get_response, set_calls,
                    restore_result, invoked, collector_vars >>

CostNext == CallLambdaExecutionCost

CostSpec == CostInit /\ [][CostNext]_vars

----------------------------------------------------------------------------
(* Benchmark.get_execution_time called on its own, as                       *)
(* test_check_execution_time and the tests after it do.                     *)

\* a Benchmark as __init__ leaves it, nothing called yet, beside a Lambda
\* service and a fibonacci Lambda that no one has called
Untouched ==
    /\ lambda_config \in OriginalConfigs
    /\ results = << >>
    /\ benchmark_results = << >>
    /\ public_errors = << >>
    /\ original_config = [memory |-> None, timeout |-> None]
    /\ idx = 0
    /\ durations = << >>
    /\ runs = 0
    /\ inflight = 0
    /\ get_response = None
    /\ set_calls = << >>
    /\ restore_result = None
    /\ invoked = {}
    /\ rounds = 0
    /\ warm_issued = << >>
    /\ returned = FALSE
    /\ cold_issued = FALSE
    /\ cost_memory = 0
    /\ cost_duration = 0
    /\ cost_outcome = None
    /\ invoke_outcome = None
    /\ execution = None
    /\ handler_response = None
    /\ fib_response = None
    /\ futures = << >>
    /\ run_number = 1
    /\ time_cursor = 0
    /\ state_cursor = 0
    /\ mock_calls = << >>

run_vars == << results, benchmark_results, public_errors, original_config,
               lambda_config, idx, get_response, set_calls, restore_result,
               invoked, collector_vars >>

SampleInit ==
    /\ ignore_coldstart \in BOOLEAN
    /\ test_count \in 1..MaxTestCount
    /\ max_threads \in ThreadCounts
    /\ memory_sets \in MemorySetChoices
    /\ timeout \in Timeouts
    /\ pc = "sample"
    /\ event = None
    /\ first_run = TRUE
    /\ fib_n = 0
    /\ Untouched

\* self.get_execution_time(), invoke_lambda answering any of its outcomes
CallGetExecutionTime ==
    /\ pc = "sample"
    /\ \E out \in InvokeLambdaOutcomes :
         /\ invoke_outcome' = Some(out)
         /\ execution' = Some(get_execution_time(timeout, out))
    /\ pc' = "sampled"
    /\ UNCHANGED << config_vars, cost_vars, handler_vars, fibonacci_vars,
                    run_vars,
                    pool_vars, session_vars, mock_vars >>

SampleNext == CallGetExecutionTime

SampleSpec == SampleInit /\ [][SampleNext]_vars

----------------------------------------------------------------------------
(* lambda_function.handler called with an event, as TestLambdaHandler      *)
(* does.  print_payload prints and changes no state.                       *)

\* the events of the calls: one that is not a dict, and dicts that give
\* test_count and max_threads (0 among them) and memory_sets, with or without
\* ignore_coldstart, timeout and a key foo
CountArgs ==
    { [test_count |-> tc, max_threads |-> mt, memory_sets |-> ms] :
          tc \in {0, 1}, mt \in {0, 1},
          ms \in { << 512 >>, << 1025, 128 >> } }
ColdstartArgs == {EmptyBody} \cup { [ignore_coldstart |-> b] : b \in BOOLEAN }
TimeoutArgs == {EmptyBody} \cup { [timeout |-> t] : t \in Timeouts }
UnknownArgs == {EmptyBody, [foo |-> "bar"]}
HandlerEvents ==
    {NotDict} \cup
    { Dict(a @@ b @@ c @@ d) :
          a \in CountArgs, b \in ColdstartArgs,
          c \in TimeoutArgs, d \in UnknownArgs }

\* handler is called: no Benchmark exists yet, its attributes have no value
HandlerInit ==
    /\ event \in HandlerEvents
    /\ pc = "handler"
    /\ ignore_coldstart = FALSE
    /\ test_count = 0
    /\ max_threads = 0
    /\ memory_sets = << >>
    /\ timeout = 0
    /\ first_run = TRUE
    /\ fib_n = 0
    /\ Untouched

\* handler, lambda_function.py:27-43: validate the event, answer 400 when
\* it is invalid, else construct the Benchmark and call run()
HandlerValidateEvent ==
    /\ pc = "handler"
    /\ LET validation == validate_event(event)
       IN  IF ~validation.valid
           THEN /\ handler_response' =
                       Some([status |-> 400, results |-> << >>,
                             errors |-> << validation.error[1] >>])
                /\ pc' = "rejected"
                /\ UNCHANGED config_vars
           ELSE /\ ignore_coldstart' =
                       Arg(event, "ignore_coldstart", IGNORE_COLDSTART)
                /\ test_count' = Arg(event, "test_count", DEFAULT_TEST_COUNT)
                /\ max_threads' =
                       Arg(event, "max_threads", DEFAULT_MAX_THREADS)
                /\ memory_sets' =
                       Arg(event, "memory_sets", DEFAULT_MEMORY_SETS)
                /\ timeout' = Arg(event, "timeout", DEFAULT_LAMBDA_TIMEOUT)
                /\ pc' = "start"
                /\ UNCHANGED handler_response
    /\ UNCHANGED << event, cost_vars, sample_vars, fibonacci_vars, run_vars,
                    pool_vars, session_vars, mock_vars >>

\* the exception that left run(): the error of store_original_config
\* (benchmark.py:204-207), or the ZeroDivisionError of
\* get_benchmark_durations (benchmark.py:291)
run_raised ==
    IF pc = "raised"
    THEN store_original_config([memory |-> None, timeout |-> None],
                               get_response[1]).error[1]
    ELSE Exc("ZeroDivisionError", "division by zero", 0)

\* handler, lambda_function.py:43-76: run() returned or raised, the
\* response is built and returned
HandlerRespond ==
    /\ pc \in {"done", "raised", "crashed"}
    /\ handler_response' =
           Some(IF pc = "done"
                THEN [status |-> 200, results |-> results,
                      errors |-> public_errors]
                ELSE handler_except(run_raised))
    /\ pc' = "responded"
    /\ UNCHANGED << event, config_vars, cost_vars, sample_vars,
                    fibonacci_vars, run_vars,
                    pool_vars, session_vars, mock_vars >>

HandlerNext ==
    \/ HandlerValidateEvent
    \/ Next
    \/ HandlerRespond

HandlerSpec == HandlerInit /\ [][HandlerNext]_vars

----------------------------------------------------------------------------
(* The fibonacci Lambda, fibonacci/lambda.py, called with an event that    *)
(* has an int n, in a container that has or has not run the handler before.*)

MaxFibN == 25
FibonacciInputs == (-2)..MaxFibN

FibonacciInit ==
    /\ first_run \in BOOLEAN
    /\ fib_n \in FibonacciInputs
    /\ pc = "fibonacci"
    /\ event = None
    /\ ignore_coldstart = FALSE
    /\ test_count = 0
    /\ max_threads = 0
    /\ memory_sets = << >>
    /\ timeout = 0
    /\ Untouched

\* handler, fibonacci/lambda.py:12-27: note the cold start, clear first_run,
\* calculate the n-th number and return it, or let calculate's exception
\* out
CallFibonacciHandler ==
    /\ pc = "fibonacci"
    /\ LET n_th == calculate(fib_n)
       IN  fib_response' =
               Some(IF n_th.raises THEN n_th
                    ELSE Return([cold_start |-> first_run,
                                 n_th |-> n_th.response]))
    /\ first_run' = FALSE
    /\ pc' = "fibonacci_returned"
    /\ UNCHANGED << fib_n, config_vars, cost_vars, sample_vars, handler_vars,
                    run_vars,
                    pool_vars, session_vars, mock_vars >>

FibonacciNext == CallFibonacciHandler

FibonacciSpec == FibonacciInit /\ [][FibonacciNext]_vars

----------------------------------------------------------------------------
(* get_benchmark_durations with its threads followed one by one: the       *)
(* workers of the ThreadPoolExecutor and the thread of the as_completed    *)
(* loop (benchmark.py:287-323).                                            *)

\* a future whose worker runs get_execution_time, and one whose worker has
\* returned the result
Running == [at |-> "running", invocation |-> None]
Done(invocation) == [at |-> "done", invocation |-> Some(invocation)]

PoolInit ==
    /\ ignore_coldstart \in BOOLEAN
    /\ test_count \in 1..MaxTestCount
    /\ max_threads \in ThreadCounts
    /\ memory_sets \in { << 512 >> }
    /\ timeout \in Timeouts
    /\ pc = "pool_collect"
    /\ event = None
    /\ first_run = TRUE
    /\ fib_n = 0
    /\ Untouched

\* the while test, benchmark.py:293-304: submit a round of workers, or
\* return the durations
PoolSubmit ==
    /\ pc = "pool_collect"
    /\ IF Len(durations) < test_count
       THEN /\ futures' = [w \in 1..round_threads(max_threads, test_count,
                                                  Len(durations)) |-> Running]
            /\ rounds' = rounds + 1
            /\ pc' = "pool_round"
       ELSE /\ pc' = "pool_returned"
            /\ UNCHANGED << futures, rounds >>
    /\ UNCHANGED << config_vars, cost_vars, sample_vars, handler_vars,
                    fibonacci_vars, session_vars, mock_vars, results,
                    benchmark_results, public_errors, original_config,
                    lambda_config, idx, durations, runs, inflight,
                    get_response, set_calls, restore_result, invoked,
                    warm_issued, returned, cold_issued >>

\* a worker that appends the duration of its sample itself
WorkerReturnsAndAppends ==
    /\ pc = "pool_round"
    /\ \E w \in DOMAIN futures, out \in InvokeLambdaOutcomes :
         LET invocation == get_execution_time(timeout, out)
         IN  /\ futures[w].at = "running"
             /\ futures' = [futures EXCEPT ![w] = Done(invocation)]
             /\ warm_issued' = IF keeps_duration(invocation)
                               THEN Append(warm_issued, invocation.duration[1])
                               ELSE warm_issued
             /\ durations' = IF keeps_duration(invocation)
                             THEN Append(durations, invocation.duration[1])
                             ELSE durations
    /\ UNCHANGED << config_vars, cost_vars, sample_vars, handler_vars,
                    fibonacci_vars, session_vars, mock_vars, results,
                    benchmark_results, public_errors, original_config,
                    lambda_config, pc, idx, runs, inflight,
                    get_response, set_calls, restore_result, invoked,
                    rounds, returned, cold_issued >>

\* a worker thread: get_execution_time returns its result dict, which
\* becomes the result of the future (benchmark.py:302, 359-415).  The
\* history keeps the duration of a sample the collector is to keep.
WorkerReturns ==
    /\ pc = "pool_round"
    /\ \E w \in DOMAIN futures, out \in InvokeLambdaOutcomes :
         LET invocation == get_execution_time(timeout, out)
         IN  /\ futures[w].at = "running"
             /\ futures' = [futures EXCEPT ![w] = Done(invocation)]
             /\ warm_issued' = IF keeps_duration(invocation)
                               THEN Append(warm_issued, invocation.duration[1])
                               ELSE warm_issued
    /\ UNCHANGED << config_vars, cost_vars, sample_vars, handler_vars,
                    fibonacci_vars, session_vars, mock_vars, results,
                    benchmark_results, public_errors, original_config,
                    lambda_config, pc, idx, durations, runs, inflight,
                    get_response, set_calls, restore_result, invoked,
                    rounds, returned, cold_issued >>

\* the coordinating thread, benchmark.py:306-310: as_completed yields a
\* future that is done, its result is read and its duration appended
AsCompleted ==
    /\ pc = "pool_round"
    /\ \E w \in DOMAIN futures :
         /\ futures[w].at = "done"
         /\ LET invocation == futures[w].invocation[1]
            IN  durations' = IF keeps_duration(invocation)
                             THEN Append(durations, invocation.duration[1])
                             ELSE durations
         /\ futures' = [futures EXCEPT ![w].at = "taken"]
    /\ UNCHANGED << config_vars, cost_vars, sample_vars, handler_vars,
                    fibonacci_vars, session_vars, mock_vars, results,
                    benchmark_results, public_errors, original_config,
                    lambda_config, pc, idx, runs, inflight,
                    get_response, set_calls, restore_result, invoked,
                    rounds, warm_issued, returned, cold_issued >>

\* the as_completed loop has yielded every future, the with block is left
\* and the round ends (benchmark.py:312-321)
PoolEndRound ==
    /\ pc = "pool_round"
    /\ \A w \in DOMAIN futures : futures[w].at = "taken"
    /\ IF runs_exhausted(runs, test_count, max_threads)
       THEN pc' = "pool_returned" /\ UNCHANGED runs
       ELSE pc' = "pool_collect" /\ runs' = runs + 1
    /\ futures' = << >>
    /\ UNCHANGED << config_vars, cost_vars, sample_vars, handler_vars,
                    fibonacci_vars, session_vars, mock_vars, results,
                    benchmark_results, public_errors, original_config,
                    lambda_config, idx, durations, inflight,
                    get_response, set_calls, restore_result, invoked,
                    rounds, warm_issued, returned, cold_issued >>

PoolNext ==
    \/ PoolSubmit
    \/ WorkerReturns
    \/ AsCompleted
    \/ PoolEndRound

PoolSpec == PoolInit /\ [][PoolNext]_vars

----------------------------------------------------------------------------
(* test.py's stub CustomMock.invoke_lambda_get_durations called by several *)
(* threads at once (test.py:96-114).                                       *)

MaxCallers == 3

MockInit ==
    /\ pc = "mock"
    /\ event = None
    /\ ignore_coldstart = FALSE
    /\ test_count = 0
    /\ max_threads = 0
    /\ memory_sets = << >>
    /\ timeout = 0
    /\ first_run = TRUE
    /\ fib_n = 0
    /\ Untouched

\* a thread calls the stub and enters the with block, test.py:100: the
\* threading.Lock() is a new lock of this call, which no other thread holds,
\* so the thread acquires it whatever the other callers do
MockEnter ==
    /\ Len(mock_calls) < MaxCallers
    /\ mock_calls' = Append(mock_calls,
                            [at |-> "locked", time |-> None, state |-> None])
    /\ UNCHANGED << pc, time_cursor, state_cursor, config_vars, cost_vars,
                    sample_vars, handler_vars, fibonacci_vars, run_vars,
                    pool_vars, session_vars >>

\* next(LAMBDA_REMAINING_TIME), test.py:104: the call takes the next
\* position of the queue of remaining times
MockNextRemainingTime ==
    /\ \E c \in DOMAIN mock_calls :
         /\ mock_calls[c].at = "locked"
         /\ mock_calls' = [mock_calls EXCEPT
                               ![c].at = "has_time",
                               ![c].time = Some(time_cursor + 1)]
    /\ time_cursor' = time_cursor + 1
    /\ UNCHANGED << pc, state_cursor, config_vars, cost_vars,
                    sample_vars, handler_vars, fibonacci_vars, run_vars,
                    pool_vars, session_vars >>

\* next(LAMBDA_STATE), test.py:105, and the return of the response made of
\* the two values (test.py:107-114)
MockNextState ==
    /\ \E c \in DOMAIN mock_calls :
         /\ mock_calls[c].at = "has_time"
         /\ mock_calls' = [mock_calls EXCEPT
                               ![c].at = "returned",
                               ![c].state = Some(state_cursor + 1)]
    /\ state_cursor' = state_cursor + 1
    /\ UNCHANGED << pc, time_cursor, config_vars, cost_vars,
                    sample_vars, handler_vars, fibonacci_vars, run_vars,
                    pool_vars, session_vars >>

MockNext ==
    \/ MockEnter
    \/ MockNextRemainingTime
    \/ MockNextState

MockSpec == MockInit /\ [][MockNext]_vars

----------------------------------------------------------------------------
(* run() called again on the Benchmark object of an earlier run().         *)

MaxRunCalls == 2

\* sweeps of one memory value, priced or not
RerunSweeps == { << 512 >>, << 1025 >> }

RerunInit ==
    /\ Init
    /\ test_count = 1
    /\ max_threads = 1
    /\ memory_sets \in RerunSweeps

\* the caller calls run() on the object once more (benchmark.py:196-198).
\* The attributes of the object are what the earlier run left; the history
\* of calls starts again with the new run.
RunAgain ==
    /\ pc \in {"done", "raised"}
    /\ run_number < MaxRunCalls
    /\ run_number' = run_number + 1
    /\ pc' = "start"
    /\ idx' = 0
    /\ get_response' = None
    /\ set_calls' = << >>
    /\ restore_result' = None
    /\ invoked' = {}
    /\ UNCHANGED << config_vars, cost_vars, sample_vars, handler_vars,
                    fibonacci_vars, pool_vars, mock_vars, results,
                    benchmark_results, public_errors, original_config,
                    lambda_config, collector_vars >>

RerunNext ==
    \/ Next
    \/ RunAgain

RerunSpec == RerunInit /\ [][RerunNext]_vars

----------------------------------------------------------------------------
(* Benchmark.get_execution_time invoking the default target, the fibonacci *)
(* Lambda of fibonacci/lambda.py (constants.py:16-19).                     *)

TargetInit ==
    /\ first_run \in BOOLEAN
    /\ fib_n \in FibonacciInputs
    /\ ignore_coldstart \in BOOLEAN
    /\ test_count \in {1}
    /\ max_threads \in {1}
    /\ memory_sets \in { << 512 >> }
    /\ timeout \in Timeouts
    /\ pc = "target"
    /\ event = None
    /\ Untouched

\* what invoke_lambda returns for a synchronous call of the fibonacci Lambda
\* (utils.py:64-81): the Payload is the dict the handler returned, or, when
\* the handler raised, the error dict the Lambda service answers with
InvokeFibonacci(response) ==
    Return([Payload |->
                Dict(IF response.raises
                     THEN [errorType |-> response.exception]
                     ELSE response.response)])

\* get_execution_time (benchmark.py:359-415) with the fibonacci handler
\* (fibonacci/lambda.py:12-27) behind invoke_lambda
SampleFibonacci ==
    /\ pc = "target"
    /\ LET n_th == calculate(fib_n)
           response == IF n_th.raises THEN n_th
                       ELSE Return([cold_start |-> first_run,
                                    n_th |-> n_th.response])
       IN  /\ fib_response' = Some(response)
           /\ invoke_outcome' = Some(InvokeFibonacci(response))
           /\ execution' = Some(get_execution_time(timeout,
                                                   InvokeFibonacci(response)))
    /\ first_run' = FALSE
    /\ pc' = "target_sampled"
    /\ UNCHANGED << fib_n, config_vars, cost_vars, handler_vars, run_vars,
                    pool_vars, session_vars, mock_vars >>

TargetNext == SampleFibonacci

TargetSpec == TargetInit /\ [][TargetNext]_vars

----------------------------------------------------------------------------
(* Properties.                                                             *)

\* the ceiling of rounds the specification gives the collector
RoundCeiling == Ceil(test_count, max_threads) + ExtraRuns

\* get_lambda_config raised or answered without an int Memory and Timeout
GetConfigUnusable(out) ==
    \/ out.raises
    \/ ~out.response.dict
    \/ "Memory" \notin DOMAIN out.response.body
    \/ "Timeout" \notin DOMAIN out.response.body
    \/ ~IsInt(out.response.body.Memory)
    \/ ~IsInt(out.response.body.Timeout)

\* the update_lambda_config call of benchmark_memory for position i failed
ConfigSetFailed(i) ==
    /\ i <= Len(set_calls)
    /\ set_calls[i].op = "benchmark_memory"
    /\ ~set_calls[i].applied

\* run() has processed the results of the whole sweep
Aggregated ==
    /\ Len(benchmark_results) = Len(memory_sets)
    /\ results = process_benchmark_results(benchmark_results).processed

InCostRanking(m) ==
    \E k \in 1..Len(results.ranking.cost) : results.ranking.cost[k].memory = m

InDurationRanking(m) ==
    \E k \in 1..Len(results.ranking.duration) :
        results.ranking.duration[k].memory = m

\* memory_sets[i] has a logs entry that says success false
LoggedAsFailed(i) ==
    /\ results.logs[i].memory = memory_sets[i]
    /\ "success" \in DOMAIN results.logs[i]
    /\ results.logs[i].success = FALSE

\* C1: when get_lambda_config raises or answers without a usable Memory and
\* Timeout, run() raises, and no update_lambda_config call and no invocation
\* has been issued.
C1_SaveFailureAborts ==
    (get_response # None /\ GetConfigUnusable(get_response[1]))
        => /\ pc = "raised"
           /\ set_calls = << >>
           /\ invoked = {}
           /\ lambda_config \in OriginalConfigs

C1_Witness ==
    /\ pc = "raised"
    /\ ~get_response[1].raises
    /\ get_response[1].response.dict
    /\ "Memory" \in DOMAIN get_response[1].response.body
    /\ IsInt(get_response[1].response.body.Memory)

\* a bound on the steps run() still takes: a round is a CollectLoop, at most
\* max_threads FutureCompleted and an EndRound, a memory value is a
\* config-set, at most test_count + ExtraRuns + 1 rounds and a last loop test
StepsOfRound == max_threads + 2
StepsOfMemory == (test_count + ExtraRuns + 1) * StepsOfRound + 2
StepsLeft ==
    LET after(i) == (Len(memory_sets) - i) * StepsOfMemory + 3
        rounds_left == test_count + ExtraRuns + 1 - runs
    IN  CASE pc = "start" -> after(0) + 1
          [] pc = "sweep" -> after(idx - 1)
          [] pc = "collect" -> after(idx) + rounds_left * StepsOfRound + 1
          [] pc = "round" ->
                 after(idx) + (rounds_left - 1) * StepsOfRound + inflight + 2
          [] pc = "restore" -> 2
          [] pc = "done" -> 1
          [] pc = "raised" -> 0

\* C2: once the original configuration is saved the restore is attempted,
\* whatever the sweep steps did, and only after every memory value has its
\* result and the results are processed: run() raises only when the save
\* failed, until it returns it always has a next step and every step brings
\* the bounded StepsLeft down, and it returns only after the one restore
\* attempt.
C2_RestoreAlwaysAttempted ==
    /\ [](pc = "raised" => GetConfigUnusable(get_response[1]))
    /\ [](pc \notin {"done", "raised"} => ENABLED Next)
    /\ [][StepsLeft' < StepsLeft /\ StepsLeft' >= 0]_vars
    /\ [](pc = "done" <=> restore_result # None)
    /\ [](restore_result # None =>
            /\ Aggregated
            /\ Len(set_calls) = Len(memory_sets) + 1
            /\ set_calls[Len(set_calls)].op = "restore_original_config")

C2_Witness ==
    /\ restore_result # None
    /\ Len(benchmark_results) > 1
    /\ \A i \in 1..Len(benchmark_results) : ~benchmark_results[i].success
    /\ ConfigSetFailed(1)
    /\ ~ConfigSetFailed(2)

\* C3: the restore calls update_lambda_config with the memory and timeout
\* that get_lambda_config returned, and when it succeeds the function has
\* that configuration again.
C3_RestoreUsesSnapshot ==
    restore_result # None =>
        LET snapshot == get_response[1].response.body
            call == set_calls[Len(set_calls)]
        IN  /\ call.op = "restore_original_config"
            /\ call.memory = snapshot.Memory[1]
            /\ call.timeout = snapshot.Timeout[1]
            /\ restore_result[1] =>
                   lambda_config = [memory |-> snapshot.Memory[1],
                                    timeout |-> snapshot.Timeout[1]]

C3_Witness ==
    /\ restore_result = Some(TRUE)
    /\ \E i \in 1..Len(set_calls) :
           set_calls[i].op = "benchmark_memory" /\ set_calls[i].applied

\* C4: when the restore fails run() returns, it returns the report made of
\* the sweep's results, and the public errors are those of the report
\* followed by one RestoreOriginalConfigError.
C4_RestoreFailureIsNotFatal ==
    restore_result = Some(FALSE) =>
        LET p == process_benchmark_results(benchmark_results)
        IN  /\ pc = "done"
            /\ results = p.processed
            /\ Len(public_errors) = Len(p.errors) + 1
            /\ SubSeq(public_errors, 1, Len(p.errors)) = p.errors
            /\ public_errors[Len(public_errors)].name =
                   "RestoreOriginalConfigError"
            /\ \A k \in 1..Len(p.errors) :
                   p.errors[k].name # "RestoreOriginalConfigError"

C4_Witness ==
    /\ restore_result = Some(FALSE)
    /\ pc = "done"
    /\ results.ranking.cost # << >>
    /\ Len(public_errors) > 1

\* C5 as claimed: after a sweep in which a config-set failed, the values
\* whose config-set failed are in logs only, with success false, and every
\* other value that sampled successfully is in both rankings.
C5_EverySampledValueRanked ==
    ( /\ pc \in {"restore", "done"}
      /\ \E f \in 1..Len(memory_sets) : ConfigSetFailed(f) ) =>
        \A i \in 1..Len(memory_sets) :
            /\ ConfigSetFailed(i) =>
                   /\ LoggedAsFailed(i)
                   /\ ~InCostRanking(memory_sets[i])
                   /\ ~InDurationRanking(memory_sets[i])
            /\ (~ConfigSetFailed(i) /\ benchmark_results[i].durations # << >>)
                   => /\ InCostRanking(memory_sets[i])
                      /\ InDurationRanking(memory_sets[i])

\* C5 amended: a failed config-set does not stop the sweep or make run()
\* raise; the values whose config-set failed are in logs only, with success
\* false, and every other value that sampled successfully and has a price in
\* the cost table is in both rankings.
C5_ConfigFailureIsPerValue ==
    /\ (pc = "raised" => set_calls = << >>)
    /\ pc \in {"restore", "done"} =>
        /\ Len(benchmark_results) = Len(memory_sets)
        /\ Len(results.logs) = Len(memory_sets)
        /\ \A i \in 1..Len(memory_sets) :
            /\ ConfigSetFailed(i) =>
                   /\ LoggedAsFailed(i)
                   /\ ~InCostRanking(memory_sets[i])
                   /\ ~InDurationRanking(memory_sets[i])
            /\ ( /\ ~ConfigSetFailed(i)
                 /\ benchmark_results[i].durations # << >>
                 /\ memory_sets[i] \in DOMAIN LAMBDA_COST_BY_MEMORY )
                   => /\ InCostRanking(memory_sets[i])
                      /\ InDurationRanking(memory_sets[i])

C5_Witness ==
    /\ pc = "done"
    /\ Len(memory_sets) = 3
    /\ ConfigSetFailed(1)
    /\ Len(results.ranking.cost) = 1
    /\ benchmark_results[2].success
    /\ benchmark_results[3].success

\* C6: when the config-set of a memory value fails, benchmark_memory returns
\* its failed result at once and no invocation is issued for that value.
C6_NoInvocationAfterConfigFailure ==
    \A i \in 1..Len(memory_sets) :
        ConfigSetFailed(i) =>
            /\ i \notin invoked
            /\ idx > i
            /\ Len(benchmark_results) >= i
            /\ ~benchmark_results[i].success
            /\ benchmark_results[i].durations = << >>
            /\ (idx = i + 1 /\ pc = "sweep") => inflight = 0

C6_Witness ==
    /\ ConfigSetFailed(1)
    /\ 2 \in invoked

\* C7: invocations run only between the config-set of their memory value and
\* the next configuration call: an invocation in flight belongs to the value
\* configured last, the config-sets follow the order of memory_sets, and no
\* update_lambda_config call is made while an invocation is in flight.
C7_SweepIsSequential ==
    /\ [](inflight > 0 =>
            /\ pc = "round"
            /\ Len(set_calls) = idx
            /\ set_calls[idx].op = "benchmark_memory"
            /\ set_calls[idx].memory = memory_sets[idx])
    /\ [](\A k \in 1..Len(set_calls) :
            IF k <= Len(memory_sets)
            THEN /\ set_calls[k].op = "benchmark_memory"
                 /\ set_calls[k].memory = memory_sets[k]
            ELSE /\ set_calls[k].op = "restore_original_config"
                 /\ k = Len(memory_sets) + 1)
    /\ [][set_calls' # set_calls => inflight = 0 /\ inflight' = 0]_vars

C7_Witness ==
    /\ inflight > 1
    /\ idx = 2
    /\ 1 \in invoked

\* C8: get_benchmark_durations never holds more than test_count durations,
\* and when it returns fewer it has run at least the ceiling of rounds.
C8_AtMostTestCount ==
    /\ Len(durations) <= test_count
    /\ \A i \in 1..Len(benchmark_results) :
           Len(benchmark_results[i].durations) <= test_count
    /\ (returned /\ Len(durations) < test_count) => rounds >= RoundCeiling

C8_Witness ==
    /\ returned
    /\ Len(durations) > 0
    /\ Len(durations) < test_count

\* C9: get_benchmark_durations runs at most
\* ceil(test_count / max_threads) + 5 rounds.
C9_RoundCeiling == rounds <= RoundCeiling

\* C10: with ignore_coldstart set, the durations that get_benchmark_durations
\* holds are the durations (timeout - remaining_time) of the successful
\* samples that were no cold start, one for each, and when test_count of
\* them arrived it returns test_count durations.
C10_DurationsAreWarmSamples ==
    ignore_coldstart =>
        /\ durations = warm_issued
        /\ returned =>
               /\ benchmark_results[Len(benchmark_results)].durations =
                      warm_issued
               /\ Len(warm_issued) >= test_count
                      => Len(durations) = test_count

C10_Witness ==
    /\ ignore_coldstart
    /\ returned
    /\ test_count > 1
    /\ Len(durations) = test_count
    /\ rounds > test_count
    /\ durations[1] # durations[2]

\* C11: with ignore_coldstart false, get_benchmark_durations keeps the
\* duration of every successful sample, cold starts included: once a
\* successful cold-start sample has arrived, durations holds more than the
\* durations of the warm samples.
C11_ColdStartsAccepted ==
    (~ignore_coldstart /\ cold_issued) => Len(durations) > Len(warm_issued)

\* C12: a round starts exactly min(max_threads, test_count - collected)
\* workers, it starts only when no worker of the round before is still
\* running, and never more than max_threads invocations are in flight.
C12_RoundsAreBoundedPools ==
    /\ [](inflight >= 0 /\ inflight <= max_threads)
    /\ [][rounds' = rounds + 1 =>
            /\ inflight = 0
            /\ Len(durations) < test_count
            /\ inflight' = IF max_threads <= test_count - Len(durations)
                           THEN max_threads
                           ELSE test_count - Len(durations)]_vars
    /\ [][inflight' > inflight => rounds' = rounds + 1]_vars

C12_Witness ==
    /\ pc = "round"
    /\ max_threads = 2
    /\ inflight = 1
    /\ idx \notin invoked

\* C13: when every external call returns, get_benchmark_durations returns
\* whatever the samples are and run() reaches the restore and returns; the
\* rounds of one get_benchmark_durations call are bounded by test_count and
\* max_threads.
C13_RunTerminates ==
    /\ (pc = "collect") ~> returned
    /\ (pc = "sweep") ~> (restore_result # None /\ pc = "done")
    /\ [](rounds <= RoundCeiling + 1)

C13_Witness ==
    /\ pc = "done"
    /\ Len(memory_sets) > 1
    /\ rounds = RoundCeiling + 1
    /\ Len(benchmark_results[1].durations) = test_count

\* the benchmark of position i sampled durations and its memory value has
\* a price
CostComputed(i) ==
    /\ benchmark_results[i].success
    /\ benchmark_results[i].memory \in DOMAIN LAMBDA_COST_BY_MEMORY

\* C14: the logs of the report hold one record for every value of
\* memory_sets, in the order of memory_sets: the i-th record names the i-th
\* value and is the record of its outcome, the duration and the cost of a
\* value that was sampled and priced, the errors of any other.
C14_OneLogPerMemoryValue ==
    pc \in {"restore", "done"} =>
        /\ Len(results.logs) = Len(memory_sets)
        /\ \A i \in 1..Len(memory_sets) :
               /\ results.logs[i].memory = memory_sets[i]
               /\ IF CostComputed(i)
                  THEN /\ "execution_cost" \in DOMAIN results.logs[i]
                       /\ results.logs[i].duration.all_invocations =
                              benchmark_results[i].durations
                  ELSE /\ "errors" \in DOMAIN results.logs[i]
                       /\ results.logs[i].errors # << >>
                       /\ results.logs[i].success = FALSE

C14_Witness ==
    /\ pc = "done"
    /\ Len(memory_sets) = 3
    /\ ConfigSetFailed(1)
    /\ benchmark_results[2].success
    /\ ~CostComputed(2)
    /\ CostComputed(3)

\* C15: a memory value is in the cost ranking exactly when it is in the
\* duration ranking, exactly when its benchmark succeeded and its cost was
\* computed; the rankings hold every such value once, whatever failed for
\* the others.
C15_RankedIffSampledAndPriced ==
    pc \in {"restore", "done"} =>
        /\ \A i \in 1..Len(memory_sets) :
               /\ InCostRanking(memory_sets[i]) <=> CostComputed(i)
               /\ InDurationRanking(memory_sets[i]) <=> CostComputed(i)
        /\ Len(results.ranking.cost) =
               Cardinality({ i \in 1..Len(memory_sets) : CostComputed(i) })
        /\ Len(results.ranking.duration) = Len(results.ranking.cost)

C15_Witness ==
    /\ pc = "done"
    /\ Len(results.ranking.cost) = 2
    /\ \E i \in 1..Len(memory_sets) :
           benchmark_results[i].success /\ ~CostComputed(i)

\* process_benchmark_results has returned a report into results
Reported == pc \in {"restore", "done", "processed", "processed_again"}

\* C16: in every report the cost ranking is non-decreasing in cost and the
\* duration ranking is non-decreasing in average duration.
C16_RankingsAscend ==
    Reported =>
        /\ \A k \in 1..(Len(results.ranking.cost) - 1) :
               results.ranking.cost[k].cost
                   <= results.ranking.cost[k + 1].cost
        /\ \A k \in 1..(Len(results.ranking.duration) - 1) :
               results.ranking.duration[k].duration
                   <= results.ranking.duration[k + 1].duration

C16_Witness ==
    /\ pc = "processed"
    /\ Len(results.ranking.cost) = 3
    /\ results.ranking.cost[1].cost < results.ranking.cost[3].cost
    /\ results.ranking.cost[1].memory = memory_sets[3]
    /\ results.ranking.duration[1].duration
           < results.ranking.duration[3].duration
    /\ results.ranking.duration[3].memory = memory_sets[1]
    /\ results.ranking.cost[1].memory # results.ranking.duration[1].memory

\* the position of memory value m in memory_sets
InputPosition(m) ==
    CHOOSE i \in 1..Len(memory_sets) : memory_sets[i] = m

\* C17: two values of equal cost are in the cost ranking in their order in
\* memory_sets, and two values of equal average duration are in the
\* duration ranking in their order in memory_sets.
C17_TiesKeepInputOrder ==
    Reported =>
        /\ \A a, b \in 1..Len(results.ranking.cost) :
               ( /\ a < b
                 /\ results.ranking.cost[a].cost
                        = results.ranking.cost[b].cost )
                   => InputPosition(results.ranking.cost[a].memory)
                          < InputPosition(results.ranking.cost[b].memory)
        /\ \A a, b \in 1..Len(results.ranking.duration) :
               ( /\ a < b
                 /\ results.ranking.duration[a].duration
                        = results.ranking.duration[b].duration )
                   => InputPosition(results.ranking.duration[a].memory)
                          < InputPosition(results.ranking.duration[b].memory)

C17_Witness ==
    /\ pc = "processed"
    /\ Len(results.ranking.cost) = 3
    /\ results.ranking.cost[2].cost = results.ranking.cost[3].cost
    /\ results.ranking.cost[1].cost < results.ranking.cost[2].cost
    /\ results.ranking.cost[1].memory = memory_sets[3]
    /\ results.ranking.duration[2].duration
           = results.ranking.duration[3].duration
    /\ results.ranking.duration[1].memory # memory_sets[1]

Bucket(d) == (d + 99) \div 100

\* C18 as claimed: for a memory value with a price the cost never goes down
\* when the duration goes up, two durations of the same 100 ms bucket cost
\* the same, and a duration of a later bucket costs more.
C18_LaterBucketCostsMore ==
    (pc = "cost_returned" /\ cost_memory \in DOMAIN LAMBDA_COST_BY_MEMORY)
        => /\ ~cost_outcome[1].raises
           /\ \A d \in 0..MaxDuration :
                  LET other == lambda_execution_cost(cost_memory, d)
                  IN  /\ d >= cost_duration
                          => other.value >= cost_outcome[1].value
                      /\ Bucket(d) = Bucket(cost_duration)
                          => other.value = cost_outcome[1].value
                      /\ Bucket(d) > Bucket(cost_duration)
                          => other.value > cost_outcome[1].value

\* C18 amended: for a memory value with a price the cost never goes down
\* when the duration goes up, two durations of the same 100 ms bucket cost
\* the same, and the cost is the price of the billed units within the half
\* micro-dollar that rounding to 6 decimals moves it; cost(512, 1) =
\* cost(512, 100) < cost(512, 101).
C18_CostIsMonotone ==
    (pc = "cost_returned" /\ cost_memory \in DOMAIN LAMBDA_COST_BY_MEMORY)
        => /\ ~cost_outcome[1].raises
           /\ \A d \in 0..MaxDuration :
                  LET other == lambda_execution_cost(cost_memory, d)
                  IN  /\ d >= cost_duration
                          => other.value >= cost_outcome[1].value
                      /\ Bucket(d) = Bucket(cost_duration)
                          => other.value = cost_outcome[1].value
           /\ LET exact == Bucket(cost_duration)
                               * LAMBDA_COST_BY_MEMORY[cost_memory]
                  billed == 1000 * cost_outcome[1].value
              IN  billed - exact <= 500 /\ exact - billed <= 500
           /\ (cost_memory = 512 /\ cost_duration = 100)
                  => /\ lambda_execution_cost(512, 1).value
                            = cost_outcome[1].value
                     /\ lambda_execution_cost(512, 101).value
                            > cost_outcome[1].value

C18_Witness ==
    /\ pc = "cost_returned"
    /\ cost_memory = 512
    /\ cost_duration = 301
    /\ cost_outcome[1].value = 3
    /\ lambda_execution_cost(512, 300).value = 3

\* C19: for a memory value that is no key of LAMBDA_COST_BY_MEMORY,
\* lambda_execution_cost raises CalculateLambdaExecutionCostError and
\* returns no cost.
C19_UnknownMemoryRaises ==
    (pc = "cost_returned" /\ cost_memory \notin DOMAIN LAMBDA_COST_BY_MEMORY)
        => /\ cost_outcome[1].raises
           /\ "value" \notin DOMAIN cost_outcome[1]
           /\ cost_outcome[1].error.type = "CalculateLambdaExecutionCostError"
           /\ cost_outcome[1].error.arg = cost_memory

C19_Witness ==
    /\ pc = "cost_returned"
    /\ cost_memory = 1025
    /\ cost_duration > BillingUnit
    /\ cost_outcome[1].raises

\* the outcome of invoke_lambda is a response whose Payload is a dict with
\* an int remaining_time
StructuredPayload(out) ==
    /\ ~out.raises
    /\ out.response.Payload.dict
    /\ "remaining_time" \in DOMAIN out.response.Payload.body
    /\ IsInt(out.response.Payload.body.remaining_time)

\* C21: get_execution_time always returns its result dict; success is true
\* exactly when invoke_lambda returned a dict Payload with an int
\* remaining_time, and then duration is timeout - remaining_time and error
\* is None; otherwise success is false, duration is None and error is a
\* string, which names the type of the exception when invoke_lambda raised.
C21_SampleNeverRaises ==
    pc = "sampled" =>
        LET out == invoke_outcome[1]
            result == execution[1]
        IN  /\ DOMAIN result = {"success", "error", "duration", "cold_start"}
            /\ result.success <=> StructuredPayload(out)
            /\ StructuredPayload(out) =>
                   /\ result.duration =
                          Some(timeout
                               - out.response.Payload.body.remaining_time[1])
                   /\ result.error = None
            /\ ~StructuredPayload(out) =>
                   /\ result.duration = None
                   /\ result.error # None
                   /\ result.error[1].type = "str"
            /\ out.raises =>
                   /\ result.error[1].msg
                          = "Could not invoke Lambda - Exception:"
                   /\ result.error[1].arg = out.exception

C21_Witness ==
    /\ pc = "sampled"
    /\ invoke_outcome[1].raises
    /\ invoke_outcome[1].exception = "KeyError"
    /\ ~execution[1].success
    /\ execution[1].error[1].arg = "KeyError"

\* C22: when the config-set of a memory value did not succeed, the error
\* set_new_config reported is not None, so the errors of the failed result
\* hold a configuration error and not the str of None.
C22_ConfigFailureHasError ==
    \A i \in 1..Len(benchmark_results) :
        ConfigSetFailed(i) =>
            /\ benchmark_results[i].errors # << >>
            /\ \A k \in 1..Len(benchmark_results[i].errors) :
                   benchmark_results[i].errors[k] # StrNone

\* the step is a config-set of benchmark_memory
ConfigSetStep ==
    /\ Len(set_calls') = Len(set_calls) + 1
    /\ set_calls'[Len(set_calls')].op = "benchmark_memory"

\* C23 as claimed: the config-set step of a sweep leaves the function the
\* timeout it had before the step.
C23_ConfigSetKeepsTimeout ==
    [][ConfigSetStep => lambda_config'.timeout = lambda_config.timeout]_vars

\* C23 amended: the config-set step asks for the memory value and for the
\* timeout of the Benchmark, so when it is applied the function has that
\* memory and that timeout, whatever its timeout was; when it is not applied
\* the configuration is as before.
C23_ConfigSetSetsTimeout ==
    [][ConfigSetStep =>
          LET call == set_calls'[Len(set_calls')]
          IN  /\ call.memory = memory_sets[idx]
              /\ call.timeout = timeout
              /\ lambda_config' =
                     IF call.applied
                     THEN [memory |-> memory_sets[idx], timeout |-> timeout]
                     ELSE lambda_config
      ]_vars

C23_Witness ==
    /\ Len(set_calls) = 1
    /\ set_calls[1].applied
    /\ lambda_config.timeout = timeout
    /\ lambda_config.timeout # get_response[1].response.body.Timeout[1]

\* public_errors has an entry made of an error of the failed value of
\* position i: the type name and the str of one of the errors of its result,
\* or the CalculateLambdaExecutionCostError of its memory
HasPublicError(i) ==
    \E k \in 1..Len(public_errors) :
        IF benchmark_results[i].success
        THEN /\ public_errors[k].name = "CalculateLambdaExecutionCostError"
             /\ public_errors[k].arg = memory_sets[i]
        ELSE \E e \in 1..Len(benchmark_results[i].errors) :
                 /\ public_errors[k].name = benchmark_results[i].errors[e].type
                 /\ public_errors[k].text = benchmark_results[i].errors[e].msg
                 /\ public_errors[k].arg = benchmark_results[i].errors[e].arg

\* C24: after run() returned, public_errors has an entry for every memory
\* value whose logs record is a failure, made of the errors of that value,
\* and at least as many entries as failed values.
C24_FailuresArePublic ==
    pc = "done" =>
        /\ \A i \in 1..Len(memory_sets) :
               ("errors" \in DOMAIN results.logs[i]) => HasPublicError(i)
        /\ Len(public_errors) >=
               Cardinality({ i \in 1..Len(memory_sets) :
                                 "errors" \in DOMAIN results.logs[i] })

C24_Witness ==
    /\ pc = "done"
    /\ Len(memory_sets) = 3
    /\ ConfigSetFailed(1)
    /\ benchmark_results[2].success
    /\ ~CostComputed(2)
    /\ ~ConfigSetFailed(3)
    /\ benchmark_results[3].durations = << >>
    /\ restore_result = Some(TRUE)

\* C25: the external calls of a run come in the order of the session.
\* get_lambda_config is called once and before every other call; every
\* update_lambda_config call comes after it; an invocation belongs to the
\* memory value of the last update_lambda_config call, which is a call of
\* benchmark_memory; the results are processed once, after the step of the
\* last memory value and its invocations; the restoring call comes after
\* that, and after it no external call is made.
C25_CallsFollowSessionOrder ==
    /\ [][get_response' # get_response =>
             /\ get_response = None
             /\ set_calls = << >>
             /\ invoked = {}
             /\ inflight = 0]_vars
    /\ [][set_calls' # set_calls =>
             /\ get_response # None
             /\ get_response' = get_response
             /\ Len(set_calls') = Len(set_calls) + 1]_vars
    /\ [][invoked' # invoked \/ inflight' # inflight =>
             /\ set_calls' = set_calls
             /\ Len(set_calls) \in 1..Len(memory_sets)
             /\ set_calls[Len(set_calls)].op = "benchmark_memory"
             /\ set_calls[Len(set_calls)].memory =
                    memory_sets[Len(set_calls)]
             /\ invoked' \subseteq invoked \cup {Len(set_calls)}
             /\ results = << >>]_vars
    /\ [][results' # results =>
             /\ results = << >>
             /\ Len(set_calls) = Len(memory_sets)
             /\ Len(benchmark_results) = Len(memory_sets)
             /\ inflight = 0
             /\ restore_result = None
             /\ set_calls' = set_calls]_vars
    /\ [][restore_result' # restore_result =>
             /\ restore_result = None
             /\ Aggregated
             /\ Len(set_calls) = Len(memory_sets)
             /\ set_calls'[Len(set_calls')].op = "restore_original_config"]_vars
    /\ [][restore_result # None =>
             UNCHANGED << get_response, set_calls, invoked, inflight >>]_vars

C25_Witness ==
    /\ pc = "done"
    /\ Len(memory_sets) = 3
    /\ invoked = {1, 3}
    /\ ConfigSetFailed(2)
    /\ Len(set_calls) = 4
    /\ restore_result # None

\* the configuration fields of the request schema
RecognizedFields == VALID_EVENT_ARGS \cup {"timeout"}

\* the event is not a dict or has a key that is no configuration field
EventUnacceptable ==
    \/ ~event.dict
    \/ \E key \in DOMAIN event.body : key \notin RecognizedFields

C28_TimeoutEventReachesBenchmark ==
    ( /\ event.dict
      /\ DOMAIN event.body \subseteq RecognizedFields
      /\ "timeout" \in DOMAIN event.body
      /\ handler_response # None )
    => /\ handler_response[1].status # 400
       /\ get_response # None

\* the k-th and the k+1-th number of the sequence 0, 1, 1, 2, 3, ..., by
\* iteration from the first pair
RECURSIVE FibonacciPair(_)
FibonacciPair(k) ==
    IF k = 1 THEN << 0, 1 >>
    ELSE LET p == FibonacciPair(k - 1) IN << p[2], p[1] + p[2] >>

\* C29: for every n >= 1, calculate(n) returns the n-th number of the
\* sequence F(1) = 0, F(2) = 1, F(n) = F(n-1) + F(n-2); F(10) = 34 and
\* F(21) = 6765.
C29_CalculateIsFibonacci ==
    (pc = "fibonacci_returned" /\ fib_n >= 1) =>
        /\ ~fib_response[1].raises
        /\ fib_response[1].response.n_th = FibonacciPair(fib_n)[1]
        /\ fib_n = 10 => fib_response[1].response.n_th = 34
        /\ fib_n = 21 => fib_response[1].response.n_th = 6765

C29_Witness ==
    /\ pc = "fibonacci_returned"
    /\ fib_n = 21
    /\ fib_response[1].response.n_th = 6765
    /\ fib_response[1].response.cold_start

\* C30: in every result benchmark_memory returned, success is true iff the
\* update_lambda_config call of its memory value succeeded and the durations
\* list is not empty; average_duration is not None iff success is true; a
\* result with an empty durations list has success false and at least one
\* error.
C30_OutcomeIsConsistent ==
    \A i \in 1..Len(benchmark_results) :
        /\ benchmark_results[i].memory = memory_sets[i]
        /\ benchmark_results[i].success <=>
               ( /\ ~ConfigSetFailed(i)
                 /\ Len(benchmark_results[i].durations) >= 1 )
        /\ (benchmark_results[i].average_duration # None) <=>
               benchmark_results[i].success
        /\ Len(benchmark_results[i].durations) = 0 =>
               /\ ~benchmark_results[i].success
               /\ Len(benchmark_results[i].errors) >= 1

C30_Witness ==
    /\ Len(benchmark_results) = 3
    /\ ConfigSetFailed(1)
    /\ ~ConfigSetFailed(2)
    /\ benchmark_results[2].durations = << >>
    /\ benchmark_results[2].errors # << >>
    /\ benchmark_results[3].success
    /\ benchmark_results[3].average_duration # None

\* how many times d is in the sequence s
Occurrences(s, d) == Cardinality({ i \in 1..Len(s) : s[i] = d })

\* the durations of the results that workers have returned and the
\* as_completed loop has not taken yet, as far as the collector keeps them
Untaken(d) ==
    Cardinality({ w \in DOMAIN futures :
                      /\ futures[w].at = "done"
                      /\ keeps_duration(futures[w].invocation[1])
                      /\ futures[w].invocation[1].duration[1] = d })

\* C31: durations is append-only and has one writer.  A step of a worker
\* leaves durations as it is; durations changes only by the as_completed
\* loop appending the duration of one future it takes; and whatever the
\* order in which the workers return, every kept duration a worker returned
\* is in durations exactly once when its future has been taken.
C31_DurationsHaveOneWriter ==
    /\ [][\/ durations' = durations
          \/ /\ Len(durations') = Len(durations) + 1
             /\ SubSeq(durations', 1, Len(durations)) = durations]_vars
    /\ [][durations' # durations =>
             \E w \in DOMAIN futures :
                 /\ futures[w].at = "done"
                 /\ futures' = [futures EXCEPT ![w].at = "taken"]
                 /\ durations' =
                        Append(durations,
                               futures[w].invocation[1].duration[1])]_vars
    /\ [][(\E w \in DOMAIN futures :
               /\ futures[w].at = "running"
               /\ w \in DOMAIN futures'
               /\ futures'[w].at = "done") => durations' = durations]_vars
    /\ [](\A d \in { timeout - r : r \in RemainingTimes } :
              Occurrences(durations, d) + Untaken(d) =
                  Occurrences(warm_issued, d))

C31_Witness ==
    /\ pc = "pool_round"
    /\ Len(futures) = 2
    /\ futures[1].at = "done"
    /\ futures[2].at = "taken"
    /\ keeps_duration(futures[1].invocation[1])
    /\ Len(durations) = 1
    /\ Len(warm_issued) = 2

\* C32: calculate raises TypeError for every n that is zero or negative.
C32_NonPositiveRaisesTypeError ==
    (pc = "fibonacci_returned" /\ fib_n <= 0) =>
        fib_response = Some(RaiseOf("TypeError"))

\* C33: every call of the stub that has returned got the remaining_time and
\* the cold_start of one and the same queue position, however many threads
\* call it at once.
C33_CallGetsOnePosition ==
    \A c \in DOMAIN mock_calls :
        mock_calls[c].at = "returned" =>
            mock_calls[c].time = mock_calls[c].state

\* the public errors run() makes of its own benchmark results and of its
\* own restore
ErrorsOfThisRun ==
    process_benchmark_results(benchmark_results).errors \o
        ( IF restore_result = Some(FALSE)
          THEN << public_error(Exc("RestoreOriginalConfigError",
                      "Cannot restore Lambda original configurations", 0)) >>
          ELSE << >> )

\* C34: when a run() has returned, whichever call of run() on the object it
\* was, public_errors holds the errors of that run and no other.
C34_PublicErrorsAreOfThisRun ==
    pc = "done" => public_errors = ErrorsOfThisRun

\* C35: every record of the logs has a success flag, and the flag is false
\* exactly when the memory value of the record is in no ranking.
C35_LogFlagMatchesRanking ==
    Reported =>
        \A i \in 1..Len(results.logs) :
            /\ "success" \in DOMAIN results.logs[i]
            /\ results.logs[i].success = FALSE <=>
                   ~InCostRanking(results.logs[i].memory)

\* C36: whatever test_count and max_threads are, 0 included, when run() has
\* returned or raised after an update_lambda_config call of benchmark_memory,
\* it has called restore_original_config.
C36_ConfigSetIsFollowedByRestore ==
    ( /\ pc \in {"done", "raised", "crashed", "responded"}
      /\ \E k \in 1..Len(set_calls) : set_calls[k].op = "benchmark_memory" )
    => restore_result # None

\* C37: a sample of the fibonacci Lambda called with an n >= 1 succeeds and
\* has a duration, and its cold_start is that of the handler's response.
C37_DefaultTargetCanBeSampled ==
    (pc = "target_sampled" /\ fib_n >= 1) =>
        /\ execution[1].success
        /\ execution[1].duration # None
        /\ execution[1].cold_start = fib_response[1].response.cold_start

====
